---- MODULE Spec2Model ----
(***************************************************************************)
(* Model of the mediallm execution pipeline:                               *)
(*   processing/command_executor.py  (CommandExecutor)                     *)
(*   processing/command_retry.py     (CommandRetryHandler)                 *)
(* Strings are sequences of one-character strings, argument lists are      *)
(* sequences of such strings, plans are sequences of argument lists.       *)
(***************************************************************************)
EXTENDS Integers, Sequences, FiniteSets, TLC

(* ------------------------------ bounds -------------------------------- *)
\* longest plan (number of commands) the LLM/compiler hands to the retry loop
MaxPlanLen == 2
\* most arguments after the executable in the inputs of is_command_secure
MaxArgs == 3
\* most arguments after the executable in the inputs built from WordVocab
MaxWords == 3
\* most arguments after the executable in the inputs of validate_ffmpeg_command
MaxValArgs == 4
MaxListLen == 2
\* most tokens in the inputs of extract_json_from_text
MaxTokens == 5
\* most calls made on one MediaLLM object
MaxCalls == 4

(* --------------------------- string helpers --------------------------- *)
\* the character U+0060 (the TLA+ lexer accepts no backquote inside a string)
Backquote == "BACKQUOTE"
\* the character U+2022 (the TLA+ lexer accepts ASCII only)
Bullet == "BULLET"

UpperLetters == <<"A","B","C","D","E","F","G","H","I","J","K","L","M","N","O","P","Q","R","S","T","U","V","W","X","Y","Z">>
LowerLetters == <<"a","b","c","d","e","f","g","h","i","j","k","l","m","n","o","p","q","r","s","t","u","v","w","x","y","z">>
Digits == {"0","1","2","3","4","5","6","7","8","9"}

Range(s) == {s[n] : n \in 1..Len(s)}

\* str.lower() on one character
LowerOf == [u \in Range(UpperLetters) |-> LowerLetters[CHOOSE n \in 1..26 : UpperLetters[n] = u]]
Lower(c) == IF c \in DOMAIN LowerOf THEN LowerOf[c] ELSE c

\* str.lower()
LowerStr(s) == [n \in 1..Len(s) |-> Lower(s[n])]

\* the regex class \w
WordChars == Range(UpperLetters) \cup Range(LowerLetters) \cup Digits \cup {"_"}
IsWordChar(c) == c \in WordChars

\* the regex class \s
SpaceChars == {" ", "\t", "\n", "\r", "\f"}

\* s[a:b] of Python with 0 <= a, as a 1-based SubSeq
Slice(s, a, b) == SubSeq(s, a + 1, IF b < Len(s) THEN b ELSE Len(s))

\* s.startswith(p)
StartsWith(s, p) == Len(p) <= Len(s) /\ SubSeq(s, 1, Len(p)) = p

\* s.endswith(p)
EndsWith(s, p) == Len(p) <= Len(s) /\ SubSeq(s, Len(s) - Len(p) + 1, Len(s)) = p

\* p in s
Contains(s, p) == \E n \in 1..(Len(s) - Len(p) + 1) : SubSeq(s, n, n + Len(p) - 1) = p

RECURSIVE JoinFrom(_, _, _)
JoinFrom(sep, parts, n) ==
  IF n > Len(parts) THEN <<>>
  ELSE IF n = Len(parts) THEN parts[n]
  ELSE parts[n] \o sep \o JoinFrom(sep, parts, n + 1)

\* sep.join(parts)
Join(sep, parts) == JoinFrom(sep, parts, 1)

(* ------------------- regular expressions (module re) ------------------ *)
\* A pattern is [ic |-> IGNORECASE?, els |-> sequence of elements]; an element
\* is a word boundary (t = "b") or a character class cs with a quantifier
\* q in {"1", "?", "*", "+"} (t = "c").
B == [t |-> "b", cs |-> {}, q |-> "1"]
Ch(c) == [t |-> "c", cs |-> {c}, q |-> "1"]
Opt(c) == [t |-> "c", cs |-> {c}, q |-> "?"]
Cls(S) == [t |-> "c", cs |-> S, q |-> "1"]
Plus(S) == [t |-> "c", cs |-> S, q |-> "+"]
Star(S) == [t |-> "c", cs |-> S, q |-> "*"]
Lit(s) == [n \in 1..Len(s) |-> Ch(s[n])]
\* the anchor $
E == [t |-> "e", cs |-> {}, q |-> "1"]
\* a character class with the quantifier ?
OptCls(S) == [t |-> "c", cs |-> S, q |-> "?"]

\* \b at position p (between s[p-1] and s[p])
AtBoundary(s, p) ==
  LET before == p > 1 /\ p - 1 <= Len(s) /\ IsWordChar(s[p - 1])
      after == p >= 1 /\ p <= Len(s) /\ IsWordChar(s[p])
  IN before # after

\* one pattern character against one text character, under re.IGNORECASE when ic
CharIn_exact(c, e, ic) == c \in e.cs
CharIn(c, e, ic) == c \in e.cs \/ (ic /\ Lower(c) \in e.cs)

\* $ at position p: the end of s, or just before a newline that ends s
AtEnd(s, p) == p = Len(s) + 1 \/ (p = Len(s) /\ s[p] = "\n")

RECURSIVE MatchFrom(_, _, _, _, _)
MatchFrom(els, ic, j, s, p) ==
  IF j > Len(els) THEN TRUE
  ELSE LET e == els[j]
           here == p <= Len(s) /\ CharIn(s[p], e, ic)
       IN IF e.t = "b" THEN AtBoundary(s, p) /\ MatchFrom(els, ic, j + 1, s, p)
          ELSE IF e.t = "e" THEN AtEnd(s, p) /\ MatchFrom(els, ic, j + 1, s, p)
          ELSE IF e.q = "1" THEN here /\ MatchFrom(els, ic, j + 1, s, p + 1)
          ELSE IF e.q = "?" THEN MatchFrom(els, ic, j + 1, s, p)
                                   \/ (here /\ MatchFrom(els, ic, j + 1, s, p + 1))
          ELSE IF e.q = "*" THEN MatchFrom(els, ic, j + 1, s, p)
                                   \/ (here /\ MatchFrom(els, ic, j, s, p + 1))
          ELSE here /\ (MatchFrom(els, ic, j + 1, s, p + 1)
                          \/ MatchFrom(els, ic, j, s, p + 1))

\* pattern.search(s)
Search(pat, s) == \E p \in 1..(Len(s) + 1) : MatchFrom(pat.els, pat.ic, 1, s, p)

\* the position behind the match that the backtracking matcher finds first
\* when it starts element j at position p (greedy quantifiers), 0 when none
RECURSIVE MatchEnd(_, _, _, _, _)
MatchEnd(els, ic, j, s, p) ==
  IF j > Len(els) THEN p
  ELSE LET e == els[j]
           here == p <= Len(s) /\ CharIn(s[p], e, ic)
           Else(a, b) == IF a # 0 THEN a ELSE b
       IN IF e.t = "b" THEN (IF AtBoundary(s, p) THEN MatchEnd(els, ic, j + 1, s, p) ELSE 0)
          ELSE IF e.t = "e" THEN (IF AtEnd(s, p) THEN MatchEnd(els, ic, j + 1, s, p) ELSE 0)
          ELSE IF e.q = "1" THEN (IF here THEN MatchEnd(els, ic, j + 1, s, p + 1) ELSE 0)
          ELSE IF e.q = "?" THEN Else(IF here THEN MatchEnd(els, ic, j + 1, s, p + 1) ELSE 0,
                                      MatchEnd(els, ic, j + 1, s, p))
          ELSE IF e.q = "*" THEN Else(IF here THEN MatchEnd(els, ic, j, s, p + 1) ELSE 0,
                                      MatchEnd(els, ic, j + 1, s, p))
          ELSE IF here THEN Else(MatchEnd(els, ic, j, s, p + 1),
                                 MatchEnd(els, ic, j + 1, s, p + 1))
          ELSE 0

\* re.search(pat, s): <<start, end>> of the leftmost match (end exclusive),
\* <<0, 0>> when there is none
SearchSpan(pat, s) ==
  LET starts == {p \in 1..(Len(s) + 1) : MatchEnd(pat.els, pat.ic, 1, s, p) # 0}
  IN IF starts = {} THEN <<0, 0>>
     ELSE LET p == CHOOSE a \in starts : \A b \in starts : a <= b
          IN <<p, MatchEnd(pat.els, pat.ic, 1, s, p)>>

\* re.sub(pat, "", s) for a pattern that matches no empty string
RECURSIVE SubFrom(_, _, _)
SubFrom(pat, s, p) ==
  IF p > Len(s) THEN <<>>
  ELSE LET e == MatchEnd(pat.els, pat.ic, 1, s, p)
       IN IF e > p THEN SubFrom(pat, s, e)
          ELSE <<s[p]>> \o SubFrom(pat, s, p + 1)

Sub(pat, s) == SubFrom(pat, s, 1)

(* ------------------ CommandExecutor: security validator --------------- *)
DANGEROUS_PATTERNS_bare == <<
  [ic |-> TRUE,  els |-> Lit(<<"r","m">>)],
  [ic |-> TRUE,  els |-> Lit(<<"d","e","l">>)],
  [ic |-> TRUE,  els |-> Lit(<<"f","o","r","m","a","t">>)],
  [ic |-> TRUE,  els |-> Lit(<<"s","y","s","t","e","m">>)],
  [ic |-> TRUE,  els |-> Lit(<<"e","x","e","c">>)],
  [ic |-> TRUE,  els |-> Lit(<<"e","v","a","l">>)],
  [ic |-> FALSE, els |-> <<Cls({"&", "|", Backquote})>>],
  [ic |-> FALSE, els |-> Lit(<<"$","(">>)],
  [ic |-> FALSE, els |-> Lit(<<"$","{">>)],
  [ic |-> FALSE, els |-> <<Ch(">"), Star(SpaceChars), Cls({"/", "\\"})>>],
  [ic |-> TRUE,  els |-> Lit(<<"s","u","d","o">>)],
  [ic |-> TRUE,  els |-> Lit(<<"c","h","m","o","d">>)],
  [ic |-> TRUE,  els |-> Lit(<<"c","h","o","w","n">>)],
  [ic |-> TRUE,  els |-> Lit(<<"m","k","f","s">>)],
  [ic |-> TRUE,  els |-> Lit(<<"d","d">>)] >>
DANGEROUS_PATTERNS == <<
  [ic |-> TRUE,  els |-> <<B>> \o Lit(<<"r","m">>) \o <<Plus(SpaceChars), Ch("-"), Ch("r"), Opt("f"), B>>],
  [ic |-> TRUE,  els |-> <<B>> \o Lit(<<"r","m">>) \o <<Plus(SpaceChars)>>],
  [ic |-> TRUE,  els |-> <<B>> \o Lit(<<"d","e","l">>) \o <<Plus(SpaceChars), Ch("/"), Cls({"s","f","q"}), B>>],
  [ic |-> TRUE,  els |-> <<B>> \o Lit(<<"d","e","l">>) \o <<Plus(SpaceChars)>>],
  [ic |-> TRUE,  els |-> <<B>> \o Lit(<<"f","o","r","m","a","t">>) \o <<Plus(SpaceChars), Cls(Range(LowerLetters)), Ch(":")>>],
  [ic |-> TRUE,  els |-> <<B>> \o Lit(<<"s","y","s","t","e","m">>) \o <<Star(SpaceChars), Ch("(")>>],
  [ic |-> TRUE,  els |-> <<B>> \o Lit(<<"e","x","e","c">>) \o <<Star(SpaceChars), Ch("(")>>],
  [ic |-> TRUE,  els |-> <<B>> \o Lit(<<"e","v","a","l">>) \o <<Star(SpaceChars), Ch("(")>>],
  [ic |-> FALSE, els |-> <<Cls({"&", "|", Backquote})>>],
  [ic |-> FALSE, els |-> Lit(<<"$","(">>)],
  [ic |-> FALSE, els |-> Lit(<<"$","{">>)],
  [ic |-> FALSE, els |-> <<Ch(">"), Star(SpaceChars), Cls({"/", "\\"})>>],
  [ic |-> TRUE,  els |-> <<B>> \o Lit(<<"s","u","d","o">>) \o <<B>>],
  [ic |-> TRUE,  els |-> <<B>> \o Lit(<<"c","h","m","o","d">>) \o <<B>>],
  [ic |-> TRUE,  els |-> <<B>> \o Lit(<<"c","h","o","w","n">>) \o <<B>>],
  [ic |-> TRUE,  els |-> <<B>> \o Lit(<<"m","k","f","s">>) \o <<B>>],
  [ic |-> TRUE,  els |-> <<B>> \o Lit(<<"d","d">>) \o <<Plus(SpaceChars)>> \o Lit(<<"i","f","=">>)] >>

FILTER_FLAGS == {<<"-","v","f">>, <<"-","a","f">>, <<"-","f","i","l","t","e","r","_","c","o","m","p","l","e","x">>, <<"-","f","i","l","t","e","r",":","v">>, <<"-","f","i","l","t","e","r",":","a">>}

VALID_EXECUTABLES_ffmpegonly == {<<"f","f","m","p","e","g">>}
VALID_EXECUTABLES == {<<"f","f","m","p","e","g">>, <<"f","f","p","r","o","b","e">>}

\* the allow-list test on command[0]
NamesValidExecutable_prefix(tok) == \E exe \in VALID_EXECUTABLES : StartsWith(tok, exe)
NamesValidExecutable(tok) == \E exe \in VALID_EXECUTABLES : EndsWith(tok, exe)

\* the while loop that drops every filter flag together with its value
RECURSIVE NonFilterArgsFrom(_, _)
NonFilterArgsFrom(command, n) ==
  IF n > Len(command) THEN <<>>
  ELSE IF command[n] \in FILTER_FLAGS /\ n + 1 <= Len(command)
       THEN NonFilterArgsFrom(command, n + 2)
       ELSE <<command[n]>> \o NonFilterArgsFrom(command, n + 1)

NonFilterArgs_all(command) == command
NonFilterArgs(command) == NonFilterArgsFrom(command, 1)

\* any(pattern.search(cmd_str) for pattern in _DANGEROUS_PATTERNS)
MatchesDangerousPattern(cmd_str) ==
  \E n \in 1..Len(DANGEROUS_PATTERNS) : Search(DANGEROUS_PATTERNS[n], cmd_str)

\* the final loop: a semicolon in some non-filter argument
HasSemicolon_none(args) == FALSE
HasSemicolon(args) == \E n \in 1..Len(args) : ";" \in Range(args[n])

\* CommandExecutor._is_command_secure
IsCommandSecure(command) ==
  IF command = <<>> \/ ~NamesValidExecutable(command[1]) THEN FALSE
  ELSE LET non_filter_args == NonFilterArgs(command)
           cmd_str == Join(<<" ">>, non_filter_args)
       IN IF MatchesDangerousPattern(cmd_str) THEN FALSE
          ELSE IF HasSemicolon(non_filter_args) THEN FALSE
          ELSE TRUE

(* ------------------ more string operations of Python ------------------ *)
\* s.split("\n")
SplitLines(s) ==
  LET breaks == {n \in 1..Len(s) : s[n] = "\n"}
      count == Cardinality(breaks)
      Break(k) == CHOOSE n \in breaks : Cardinality({m \in breaks : m < n}) = k - 1
  IN [k \in 1..(count + 1) |->
        SubSeq(s, IF k = 1 THEN 1 ELSE Break(k - 1) + 1,
                  IF k = count + 1 THEN Len(s) ELSE Break(k) - 1)]

\* s.strip()
Strip(s) ==
  LET keep == {n \in 1..Len(s) : s[n] \notin SpaceChars}
  IN IF keep = {} THEN <<>>
     ELSE SubSeq(s, CHOOSE a \in keep : \A b \in keep : a <= b,
                    CHOOSE a \in keep : \A b \in keep : a >= b)

\* repr() of a list of strings that hold no quote, backslash or control character
ReprList(cmd) ==
  <<"[">> \o Join(<<","," ">>, [n \in 1..Len(cmd) |-> <<"'">> \o cmd[n] \o <<"'">>]) \o <<"]">>

\* str() of a small non-negative integer
DigitSeq == <<"0","1","2","3","4","5","6","7","8","9">>
RECURSIVE IntStr(_)
IntStr(n) == IF n < 10 THEN <<DigitSeq[n + 1]>> ELSE IntStr(n \div 10) \o <<DigitSeq[(n % 10) + 1]>>

(* ------------- CommandRetryHandler: validate_ffmpeg_command ----------- *)
MAX_RETRY_ATTEMPTS == 3
FFMPEG_VALIDATION_TIMEOUT == 10

PSEUDO_INPUT_PREFIXES == {<<"p","i","p","e",":">>, <<"h","t","t","p",":","/","/">>, <<"h","t","t","p","s",":","/","/">>, <<"-">>}

\* CommandRetryHandler._check_input_files: the list missing_files, where
\* fs is the set of paths that exist on disk
RECURSIVE MissingFilesFrom(_, _, _)
MissingFilesFrom(cmd, n, fs) ==
  IF n > Len(cmd) THEN <<>>
  ELSE IF cmd[n] = <<"-","i">> /\ n + 1 <= Len(cmd)
       THEN (IF (~\E pre \in PSEUDO_INPUT_PREFIXES : StartsWith(cmd[n + 1], pre))
                 /\ cmd[n + 1] \notin fs
             THEN <<cmd[n + 1]>> ELSE <<>>) \o MissingFilesFrom(cmd, n + 2, fs)
       ELSE MissingFilesFrom(cmd, n + 1, fs)

\* CommandRetryHandler._check_input_files: the returned message ("" when none)
CheckInputFiles_first(cmd, fs) ==
  LET missing_files == MissingFilesFrom(cmd, 1, fs)
  IN IF missing_files # <<>>
     THEN <<"I","n","p","u","t"," ","f","i","l","e","(","s",")"," ","n","o","t"," ","f","o","u","n","d",":"," ">> \o missing_files[1]
     ELSE <<>>
CheckInputFiles(cmd, fs) ==
  LET missing_files == MissingFilesFrom(cmd, 1, fs)
  IN IF missing_files # <<>>
     THEN <<"I","n","p","u","t"," ","f","i","l","e","(","s",")"," ","n","o","t"," ","f","o","u","n","d",":"," ">> \o Join(<<","," ">>, missing_files)
     ELSE <<>>

\* stands for the None that _build_quick_validation_cmd returns
NoCommand == <<<<"None">>>>

\* CommandRetryHandler._build_quick_validation_cmd
BuildQuickValidationCmd(cmd) ==
  IF cmd = <<>> \/ cmd[1] # <<"f","f","m","p","e","g">> THEN NoCommand
  ELSE LET inputs == {n \in 1..Len(cmd) : cmd[n] = <<"-","i">>}
           \* 0-based index of the token after the last -i, -1 when there is none
           last_input_idx == IF inputs = {} THEN -1
                             ELSE CHOOSE n \in inputs : \A m \in inputs : m <= n
       IN IF last_input_idx > 0 /\ last_input_idx < Len(cmd)
          THEN SubSeq(cmd, 1, last_input_idx + 1) \o <<<<"-","t">>, <<"0",".","0","0","1">>>>
                 \o SubSeq(cmd, last_input_idx + 2, Len(cmd))
          ELSE cmd

\* outcomes of subprocess.run: a completed process (kind "exit" with its return
\* code and captured stderr), TimeoutExpired, FileNotFoundError, any other exception
ProcExit(rc, stderr) == [kind |-> "exit", rc |-> rc, stderr |-> stderr]
ProcTimeout == [kind |-> "timeout", rc |-> 0, stderr |-> <<>>]
ProcNotFound == [kind |-> "notfound", rc |-> 0, stderr |-> <<>>]
ProcException == [kind |-> "exception", rc |-> 0, stderr |-> <<>>]

\* the reason extracted from the stderr of a failed dry check
DryCheckReason_generic(stderr) == <<"s","y","n","t","a","x"," ","e","r","r","o","r">>
DryCheckReason(stderr) ==
  LET NotBlankNotBracket(line) == Strip(line) # <<>> /\ ~StartsWith(line, <<"[">>)
      error_lines == SelectSeq(SplitLines(stderr), NotBlankNotBracket)
  IN IF error_lines # <<>> THEN error_lines[1] ELSE Slice(stderr, 0, 200)

\* the executable test at the head of validate_ffmpeg_command
StartsWithEngine(cmd) == cmd # <<>> /\ cmd[1] \in {<<"f","f","m","p","e","g">>, <<"f","f","p","r","o","b","e">>}

\* CommandRetryHandler.validate_ffmpeg_command: the returned pair (ok, msg)
\* and the argument list of the subprocess it started (NoCommand when none);
\* fs is the set of existing paths, dry the outcome of the dry check if one runs
ValidateFfmpegCommand(cmd, fs, dry) ==
  IF ~StartsWithEngine(cmd)
  THEN [ok |-> FALSE, msg |-> <<"C","o","m","m","a","n","d"," ","m","u","s","t"," ","s","t","a","r","t"," ","w","i","t","h"," ","f","f","m","p","e","g"," ","o","r"," ","f","f","p","r","o","b","e">>, proc |-> NoCommand]
  ELSE LET input_check_errors == CheckInputFiles(cmd, fs)
           quick_check_cmd == BuildQuickValidationCmd(cmd)
       IN IF input_check_errors # <<>>
          THEN [ok |-> FALSE, msg |-> input_check_errors, proc |-> NoCommand]
          ELSE IF quick_check_cmd = NoCommand
          THEN [ok |-> TRUE, msg |-> <<>>, proc |-> NoCommand]
          ELSE IF dry.kind = "exit" /\ dry.rc # 0
          THEN [ok |-> FALSE,
                msg |-> <<"F","F","m","p","e","g"," ","v","a","l","i","d","a","t","i","o","n"," ","f","a","i","l","e","d",":"," ">> \o DryCheckReason(dry.stderr),
                proc |-> quick_check_cmd]
          ELSE IF dry.kind = "notfound"
          THEN [ok |-> FALSE,
                msg |-> <<"F","F","m","p","e","g"," ","e","x","e","c","u","t","a","b","l","e"," ","n","o","t"," ","f","o","u","n","d","."," ","P","l","e","a","s","e"," ","i","n","s","t","a","l","l"," ","F","F","m","p","e","g",".">>,
                proc |-> quick_check_cmd]
          ELSE [ok |-> TRUE, msg |-> <<>>, proc |-> quick_check_cmd]

(* -------------- CommandRetryHandler: the retry prompt ----------------- *)
ERROR_PATTERNS == <<
  <<"I","n","v","a","l","i","d"," ","d","a","t","a"," ","f","o","u","n","d">>, <<"U","n","k","n","o","w","n"," ","e","n","c","o","d","e","r">>, <<"U","n","k","n","o","w","n"," ","d","e","c","o","d","e","r">>, <<"E","n","c","o","d","e","r"," ","n","o","t"," ","f","o","u","n","d">>,
  <<"D","e","c","o","d","e","r"," ","n","o","t"," ","f","o","u","n","d">>, <<"N","o"," ","s","u","c","h"," ","f","i","l","e"," ","o","r"," ","d","i","r","e","c","t","o","r","y">>, <<"P","e","r","m","i","s","s","i","o","n"," ","d","e","n","i","e","d">>,
  <<"I","n","v","a","l","i","d"," ","a","r","g","u","m","e","n","t">>, <<"U","n","r","e","c","o","g","n","i","z","e","d"," ","o","p","t","i","o","n">>, <<"d","o","e","s"," ","n","o","t"," ","s","u","p","p","o","r","t">>,
  <<"c","o","d","e","c"," ","n","o","t"," ","c","u","r","r","e","n","t","l","y"," ","s","u","p","p","o","r","t","e","d">>, <<"I","n","v","a","l","i","d"," ","o","p","t","i","o","n">>, <<"E","r","r","o","r"," ","w","h","i","l","e"," ","o","p","e","n","i","n","g">>,
  <<"O","u","t","p","u","t"," ","f","i","l","e">>, <<"c","a","n","n","o","t"," ","b","e"," ","u","s","e","d"," ","t","o","g","e","t","h","e","r">> >>

\* the test of one line in _extract_error_summary
IsRelevantLine(line) ==
  LET line_lower == LowerStr(line)
  IN \/ \E n \in 1..Len(ERROR_PATTERNS) : Contains(line_lower, LowerStr(ERROR_PATTERNS[n]))
     \/ Contains(line_lower, <<"e","r","r","o","r">>)

\* CommandRetryHandler._extract_error_summary
ExtractErrorSummary(error_message) ==
  LET lines == SplitLines(error_message)
      kept == SelectSeq(lines, IsRelevantLine)
      relevant_lines == [n \in 1..Len(kept) |-> Strip(kept[n])]
  IN IF relevant_lines # <<>>
     THEN Join(<<"\n">>, Slice(relevant_lines, 0, 3))
     ELSE IF Len(error_message) > 200 THEN Slice(error_message, 0, 200) ELSE error_message

RETRY_PROMPT_LEAD == <<"\n","\n","I","M","P","O","R","T","A","N","T",":"," ","T","h","e"," ","p","r","e","v","i","o","u","s"," ","F","F","m","p","e","g"," ","c","o","m","m","a","n","d"," ","f","a","i","l","e","d"," ","w","i","t","h"," ","t","h","i","s"," ","e","r","r","o","r",":","\n">>

RETRY_PROMPT_HINTS ==
  <<"\n","\n","P","l","e","a","s","e"," ","g","e","n","e","r","a","t","e"," ","a"," ","c","o","r","r","e","c","t","e","d"," ","c","o","m","m","a","n","d"," ","t","h","a","t"," ","a","v","o","i","d","s"," ","t","h","i","s"," ","e","r","r","o","r","."," ","C","o","n","s","i","d","e","r",":","\n","-"," ","C","h","e","c","k"," ","c","o","d","e","c"," ","c","o","m","p","a","t","i","b","i","l","i","t","y"," ","w","i","t","h"," ","t","h","e"," ","o","u","t","p","u","t"," ","f","o","r","m","a","t","\n","-"," ","V","e","r","i","f","y"," ","i","n","p","u","t"," ","f","i","l","e"," ","p","a","t","h","s"," ","a","r","e"," ","c","o","r","r","e","c","t","\n","-"," ","E","n","s","u","r","e"," ","f","i","l","t","e","r"," ","s","y","n","t","a","x"," ","i","s"," ","v","a","l","i","d","\n","-"," ","U","s","e"," ","a","p","p","r","o","p","r","i","a","t","e"," ","c","o","d","e","c","s"," ","f","o","r"," ","t","h","e"," ","t","a","r","g","e","t"," ","c","o","n","t","a","i","n","e","r">>

\* CommandRetryHandler._build_retry_prompt
BuildRetryPrompt_raw(original_prompt, error_message) ==
  original_prompt \o RETRY_PROMPT_LEAD \o error_message \o RETRY_PROMPT_HINTS
BuildRetryPrompt(original_prompt, error_message) ==
  original_prompt \o RETRY_PROMPT_LEAD \o ExtractErrorSummary(error_message)
    \o RETRY_PROMPT_HINTS

(* ------------------ CommandExecutor: execution errors ----------------- *)
DEFAULT_SUBPROCESS_TIMEOUT == 300
STDERR_EXCERPT == 500

MSG_EMPTY_COMMAND == <<"E","m","p","t","y"," ","c","o","m","m","a","n","d"," ","r","e","c","e","i","v","e","d"," ","f","o","r"," ","e","x","e","c","u","t","i","o","n",".">>

\* the message of _validate_executable_exists
MsgExecutableNotFound(executable) ==
  <<"E","x","e","c","u","t","a","b","l","e"," ","n","o","t"," ","f","o","u","n","d",":"," ">> \o executable
    \o <<"."," ","P","l","e","a","s","e"," ","i","n","s","t","a","l","l"," ","F","F","m","p","e","g",":","\n",Bullet," ","m","a","c","O","S",":"," ","b","r","e","w"," ","i","n","s","t","a","l","l"," ","f","f","m","p","e","g","\n",Bullet," ","U","b","u","n","t","u","/","D","e","b","i","a","n",":"," ","s","u","d","o"," ","a","p","t"," ","i","n","s","t","a","l","l"," ","f","f","m","p","e","g","\n",Bullet," ","W","i","n","d","o","w","s",":"," ","c","h","o","c","o"," ","i","n","s","t","a","l","l"," ","f","f","m","p","e","g">>

MSG_SECURITY_generic == <<"C","o","m","m","a","n","d"," ","r","e","j","e","c","t","e","d",".">>
MSG_SECURITY ==
  <<"C","o","m","m","a","n","d"," ","f","a","i","l","e","d"," ","s","e","c","u","r","i","t","y"," ","v","a","l","i","d","a","t","i","o","n","."," ","T","h","i","s"," ","c","o","u","l","d"," ","b","e"," ","d","u","e"," ","t","o",":"," ","(","1",")"," ","u","n","s","a","f","e"," ","f","i","l","e"," ","p","a","t","h","s"," ","o","r"," ","a","r","g","u","m","e","n","t","s",","," ","(","2",")"," ","u","n","s","u","p","p","o","r","t","e","d"," ","f","f","m","p","e","g"," ","f","l","a","g","s",","," ","o","r"," ","(","3",")"," ","p","o","t","e","n","t","i","a","l"," ","s","e","c","u","r","i","t","y"," ","r","i","s","k","s","."," ","P","l","e","a","s","e"," ","c","h","e","c","k"," ","y","o","u","r"," ","i","n","p","u","t"," ","a","n","d"," ","t","r","y"," ","a"," ","s","i","m","p","l","e","r"," ","o","p","e","r","a","t","i","o","n",".">>

MsgTimeout(effective_timeout) ==
  <<"F","F","m","p","e","g"," ","c","o","m","m","a","n","d"," ","t","i","m","e","d"," ","o","u","t"," ","a","f","t","e","r"," ">> \o IntStr(effective_timeout)
    \o <<" ","s","e","c","o","n","d","s","."," ","T","h","i","s"," ","m","a","y"," ","b","e"," ","d","u","e"," ","t","o",":"," ","(","1",")"," ","v","e","r","y"," ","l","a","r","g","e"," ","i","n","p","u","t"," ","f","i","l","e",","," ","(","2",")"," ","c","o","m","p","l","e","x"," ","e","n","c","o","d","i","n","g"," ","o","p","e","r","a","t","i","o","n",","," ","(","3",")"," ","i","n","s","u","f","f","i","c","i","e","n","t"," ","s","y","s","t","e","m"," ","r","e","s","o","u","r","c","e","s","."," ","T","r","y"," ","i","n","c","r","e","a","s","i","n","g"," ","t","h","e"," ","t","i","m","e","o","u","t"," ","o","r"," ","p","r","o","c","e","s","s","i","n","g"," ","s","m","a","l","l","e","r"," ","f","i","l","e","s",".">>

\* str() of subprocess.CalledProcessError with a positive return code
CalledProcessErrorStr(cmd, rc) ==
  <<"C","o","m","m","a","n","d"," ","'">> \o ReprList(cmd) \o <<"'"," ","r","e","t","u","r","n","e","d"," ","n","o","n","-","z","e","r","o"," ","e","x","i","t"," ","s","t","a","t","u","s"," ">> \o IntStr(rc) \o <<".">>

\* the message built in the CalledProcessError handler of _execute_single_command
MsgExecutionFailed_nodetails(cmd, rc, stderr_msg) ==
  <<"f","f","m","p","e","g"," ","e","x","e","c","u","t","i","o","n"," ","f","a","i","l","e","d"," ","w","i","t","h"," ","e","r","r","o","r",":"," ">> \o CalledProcessErrorStr(cmd, rc) \o <<"."," ">>
    \o <<"P","l","e","a","s","e"," ","v","e","r","i","f","y",":"," ","(","1",")"," ","i","n","p","u","t"," ","f","i","l","e","s"," ","e","x","i","s","t"," ","a","n","d"," ","a","r","e"," ","r","e","a","d","a","b","l","e",","," ","(","2",")"," ","o","u","t","p","u","t"," ","d","i","r","e","c","t","o","r","y"," ","i","s"," ","w","r","i","t","a","b","l","e",","," ","(","3",")"," ","f","f","m","p","e","g"," ","i","s"," ","p","r","o","p","e","r","l","y"," ","i","n","s","t","a","l","l","e","d"," ","(","t","r","y"," ","'","f","f","m","p","e","g"," ","-","v","e","r","s","i","o","n","'",")",","," ","(","4",")"," ","f","i","l","e"," ","f","o","r","m","a","t","s"," ","a","r","e"," ","s","u","p","p","o","r","t","e","d","."," ","U","s","e"," ","-","-","v","e","r","b","o","s","e"," ","f","o","r"," ","d","e","t","a","i","l","e","d"," ","l","o","g","g","i","n","g",".">>
MsgExecutionFailed(cmd, rc, stderr_msg) ==
  <<"f","f","m","p","e","g"," ","e","x","e","c","u","t","i","o","n"," ","f","a","i","l","e","d"," ","w","i","t","h"," ","e","r","r","o","r",":"," ">> \o CalledProcessErrorStr(cmd, rc) \o <<"."," ">>
    \o (IF stderr_msg # <<>> THEN <<"D","e","t","a","i","l","s",":"," ">> \o Slice(stderr_msg, 0, STDERR_EXCERPT) ELSE <<>>)
    \o <<"P","l","e","a","s","e"," ","v","e","r","i","f","y",":"," ","(","1",")"," ","i","n","p","u","t"," ","f","i","l","e","s"," ","e","x","i","s","t"," ","a","n","d"," ","a","r","e"," ","r","e","a","d","a","b","l","e",","," ","(","2",")"," ","o","u","t","p","u","t"," ","d","i","r","e","c","t","o","r","y"," ","i","s"," ","w","r","i","t","a","b","l","e",","," ","(","3",")"," ","f","f","m","p","e","g"," ","i","s"," ","p","r","o","p","e","r","l","y"," ","i","n","s","t","a","l","l","e","d"," ","(","t","r","y"," ","'","f","f","m","p","e","g"," ","-","v","e","r","s","i","o","n","'",")",","," ","(","4",")"," ","f","i","l","e"," ","f","o","r","m","a","t","s"," ","a","r","e"," ","s","u","p","p","o","r","t","e","d","."," ","U","s","e"," ","-","-","v","e","r","b","o","s","e"," ","f","o","r"," ","d","e","t","a","i","l","e","d"," ","l","o","g","g","i","n","g",".">>

(* --------------- CommandExecutor: the gate before a run --------------- *)
\* an ExecError, kept as the data its message is built from
ExecError(kind, cmd, rc, stderr, at) ==
  [kind |-> kind, cmd |-> cmd, rc |-> rc, stderr |-> stderr, attempt |-> at]

NoError == ExecError("none", <<>>, 0, <<>>, 0)

\* str(e) of an ExecError raised by _execute_single_command
ErrorText(e) ==
  CASE e.kind = "empty" -> MSG_EMPTY_COMMAND
    [] e.kind = "which" -> MsgExecutableNotFound(e.cmd[1])
    [] e.kind = "security" -> MSG_SECURITY
    [] e.kind = "timeout" -> MsgTimeout(DEFAULT_SUBPROCESS_TIMEOUT)
    [] e.kind = "called" -> MsgExecutionFailed(e.cmd, e.rc, e.stderr)
    [] OTHER -> <<>>

\* CommandExecutor._validate_command_security: TRUE when it returns, FALSE
\* when it raises ExecError
ValidateCommandSecurity_skip(cmd) == TRUE
ValidateCommandSecurity(cmd) == IsCommandSecure(cmd)

\* CommandExecutor._validate_command: "ok" when it returns, otherwise the kind
\* of the ExecError it raises; found is the answer of shutil.which(cmd[0])
ValidateCommand(cmd, found) ==
  IF cmd = <<>> THEN "empty"
  ELSE IF ~found THEN "which"
  ELSE IF ~ValidateCommandSecurity(cmd) THEN "security"
  ELSE "ok"

\* CommandExecutor.run: the branch taken before _execute_commands
RunBranch_noconfirm(commands, confirm, dry_run) ==
  IF commands = <<>> THEN "no_commands"
  ELSE IF dry_run THEN "dry_run"
  ELSE "execute"
RunBranch(commands, confirm, dry_run) ==
  IF commands = <<>> THEN "no_commands"
  ELSE IF dry_run THEN "dry_run"
  ELSE IF ~confirm THEN "cancelled"
  ELSE "execute"

\* the `except ExecError ... raise` of _execute_commands: the error of a
\* failed command leaves the batch
ReRaises_swallow == FALSE
ReRaises == TRUE

\* the guard `attempt < MAX_RETRY_ATTEMPTS` of both failure branches
CanRegenerate_le(attempt_no) == attempt_no <= MAX_RETRY_ATTEMPTS
CanRegenerate(attempt_no) == attempt_no < MAX_RETRY_ATTEMPTS

(* ------------------- JSONRepair: path value cleaning ------------------ *)
\* the characters of the texts of this model
AllChars ==
  WordChars \cup SpaceChars
    \cup {"/", "\\", "-", "(", ")", "#", ":", ".", ",", ";", "&", "|", "$", "{", "}",
          ">", "<", "=", "'", "[", "]", "@", "*", "?", "!", "+", "%", "~", "^"}

\* the class [^...]
NotCls(S) == AllChars \ S

\* patterns_to_remove of _clean_path_string
PATTERNS_TO_REMOVE == <<
  [ic |-> FALSE, els |-> <<Star(SpaceChars), Ch("-"), Plus(SpaceChars), Plus(NotCls({"/", "\\"})), E>>],
  [ic |-> FALSE, els |-> <<Star(SpaceChars), Ch("("), Plus(NotCls({")"})), Ch(")"), Star(SpaceChars), E>>],
  [ic |-> FALSE, els |-> <<Star(SpaceChars), Ch("#"), Plus(NotCls({"/", "\\"})), E>>],
  [ic |-> FALSE, els |-> <<Star(SpaceChars), Ch("/"), Ch("/"), Plus(NotCls({"/", "\\"})), E>>],
  [ic |-> FALSE, els |-> <<Star(SpaceChars), Ch(":"), Plus(SpaceChars), Plus(NotCls({"/", "\\", ":"})), E>>] >>

\* \.\w{2,5}$
EXTENSION_AT_END ==
  [ic |-> FALSE, els |-> <<Ch("."), Cls(WordChars), Cls(WordChars), OptCls(WordChars),
                           OptCls(WordChars), OptCls(WordChars), E>>]

\* (\S+\.\w{2,5})
NAME_WITH_EXTENSION ==
  [ic |-> FALSE, els |-> <<Plus(NotCls(SpaceChars)), Ch("."), Cls(WordChars), Cls(WordChars),
                           OptCls(WordChars), OptCls(WordChars), OptCls(WordChars)>>]

\* the for loop over patterns_to_remove
RECURSIVE RemoveAnnotations(_, _)
RemoveAnnotations(path_str, n) ==
  IF n > Len(PATTERNS_TO_REMOVE) THEN path_str
  ELSE RemoveAnnotations(Sub(PATTERNS_TO_REMOVE[n], path_str), n + 1)

\* the components of a POSIX path: the pieces between slashes that are
\* neither empty nor "."
PathParts(path) ==
  LET cuts == {0, Len(path) + 1} \cup {n \in 1..Len(path) : path[n] = "/"}
      Piece(a) == LET b == CHOOSE c \in cuts : c > a /\ \A d \in cuts : d > a => c <= d
                  IN SubSeq(path, a + 1, b - 1)
      begins == {a \in cuts : a <= Len(path) /\ Piece(a) # <<>> /\ Piece(a) # <<".">>}
      Nth(k) == CHOOSE a \in begins : Cardinality({b \in begins : b < a}) = k - 1
  IN [k \in 1..Cardinality(begins) |-> Piece(Nth(k))]

\* Path(path).name
PathName(path) ==
  LET parts == PathParts(path) IN IF parts = <<>> THEN <<>> ELSE parts[Len(parts)]

\* the lists of the workspace snapshot in the order _clean_path_string reads them
WorkspaceFiles(workspace) ==
  workspace.videos \o workspace.audios \o workspace.images \o workspace.subtitle_files

\* path_str of _clean_path_string after the annotation patterns and the
\* search for a name with an extension
CleanedPath(path_str) ==
  LET original == path_str
      stripped == RemoveAnnotations(path_str, 1)
      ext_match == SearchSpan(NAME_WITH_EXTENSION, original)
  IN IF ~Search(EXTENSION_AT_END, stripped) /\ ext_match[1] # 0
     THEN SubSeq(original, ext_match[1], ext_match[2] - 1)
     ELSE stripped

\* JSONRepair._clean_path_string
CleanPathString(path_str, workspace) ==
  IF path_str = <<>> THEN path_str
  ELSE LET cleaned == CleanedPath(path_str)
           path_str_lower == Strip(LowerStr(cleaned))
           files == WorkspaceFiles(workspace)
           hits == {n \in 1..Len(files) :
                      \/ path_str_lower = LowerStr(PathName(files[n]))
                      \/ Contains(LowerStr(files[n]), path_str_lower)}
       IN IF hits # {} THEN files[CHOOSE n \in hits : \A m \in hits : n <= m]
          ELSE Strip(cleaned)

(* ------------------- JSONRepair: repair_json_for_schema --------------- *)
\* A value of the parsed response as Python holds it: t is its type, s the
\* characters of a str (for a number, as printed), l the items of a list or
\* the values of a dict.
JNull == [t |-> "null", s |-> <<>>, l |-> <<>>]
JStr(chars) == [t |-> "str", s |-> chars, l |-> <<>>]
JNum(chars) == [t |-> "num", s |-> chars, l |-> <<>>]
JBool(b) == [t |-> "bool", s |-> IF b THEN <<"T","r","u","e">> ELSE <<"F","a","l","s","e">>, l |-> <<>>]
JList(items) == [t |-> "list", s |-> <<>>, l |-> items]
JDict(values) == [t |-> "dict", s |-> <<>>, l |-> values]
\* the key is not in the object
Absent == [t |-> "absent", s |-> <<>>, l |-> <<>>]

\* the keys of the response object that the repair reads or writes
FIELDS == {"action", "inputs", "filters", "extra_flags", "output", "subtitle_path",
           "overlay_path", "format", "codec"}
\* {}
EmptyObject == [f \in FIELDS |-> Absent]
\* data is None
NoneData == [is_none |-> TRUE, obj |-> EmptyObject]
ObjectData(obj) == [is_none |-> FALSE, obj |-> obj]

\* `if value`, `not value`: Python's truth value
Truthy(v) ==
  CASE v.t \in {"null", "absent"} -> FALSE
    [] v.t = "str" -> v.s # <<>>
    [] v.t = "num" -> v.s # <<"0">>
    [] v.t = "bool" -> v.s = <<"T","r","u","e">>
    [] OTHER -> v.l # <<>>

\* data.get(field)
Get(data, field) == IF data[field] = Absent THEN JNull ELSE data[field]

\* repr(value), which str() of a list or a dict applies to its items
RECURSIVE PyRepr(_)
PyRepr(v) ==
  CASE v.t = "str" -> <<"'">> \o v.s \o <<"'">>
    [] v.t = "null" -> <<"N","o","n","e">>
    [] v.t = "list" ->
         <<"[">> \o Join(<<","," ">>, [n \in 1..Len(v.l) |-> PyRepr(v.l[n])]) \o <<"]">>
    [] v.t = "dict" ->
         <<"{">> \o Join(<<","," ">>, [n \in 1..Len(v.l) |-> <<"'","k","'",":"," ">> \o PyRepr(v.l[n])])
                 \o <<"}">>
    [] OTHER -> v.s

\* str(item)
PyStr(v) == IF v.t = "str" THEN v.s ELSE PyRepr(v)

\* JSONRepair.sanitize_path_values
PATH_FIELDS == {"output", "subtitle_path", "overlay_path"}

SanitizePathValues(data, workspace) ==
  [field \in FIELDS |->
     LET value == Get(data, field)
     IN IF field \in PATH_FIELDS
        THEN IF Truthy(value) /\ value.t = "str"
             THEN JStr(CleanPathString(value.s, workspace))
             ELSE data[field]
        ELSE IF field = "inputs" /\ data[field].t = "list"
        THEN JList([n \in 1..Len(data[field].l) |->
                      LET inp == data[field].l[n]
                      IN IF inp.t = "str" THEN JStr(CleanPathString(inp.s, workspace))
                         ELSE inp])
        ELSE data[field]]

\* `if "action" not in repaired or not repaired["action"]`
NeedsAction(repaired) == repaired["action"] = Absent \/ ~Truthy(repaired["action"])

LIST_FIELDS == {"inputs", "filters", "extra_flags"}
CLEANED_FIELDS == {"filters", "extra_flags"}

\* one round of the loop "Ensure list fields are properly initialized"
InitList_absentonly(value) ==
  IF value = Absent THEN JList(<<>>)
  ELSE value
InitList(value) ==
  IF value = Absent \/ value = JNull THEN JList(<<>>)
  ELSE IF value.t # "list" THEN IF Truthy(value) THEN JList(<<value>>) ELSE JList(<<>>)
  ELSE value

InitLists(repaired) ==
  [field \in FIELDS |-> IF field \in LIST_FIELDS THEN InitList(repaired[field])
                        ELSE repaired[field]]

\* `item and str(item).strip()`
KeepsItem(item) == Truthy(item) /\ Strip(PyStr(item)) # <<>>

\* one round of the loop "Clean up empty strings in lists"
CleanList(value) ==
  IF value.t = "list" THEN JList(SelectSeq(value.l, KeepsItem))
  ELSE value

CleanLists(repaired) ==
  [field \in FIELDS |-> IF field \in CLEANED_FIELDS THEN CleanList(repaired[field])
                        ELSE repaired[field]]

ACTIONS_NEEDING_INPUTS == {
  <<"c","o","n","v","e","r","t">>, <<"e","x","t","r","a","c","t","_","a","u","d","i","o">>, <<"c","o","m","p","r","e","s","s">>, <<"f","o","r","m","a","t","_","c","o","n","v","e","r","t">>, <<"t","r","i","m">>, <<"s","e","g","m","e","n","t">>,
  <<"t","h","u","m","b","n","a","i","l">>, <<"f","r","a","m","e","s">>, <<"e","x","t","r","a","c","t","_","f","r","a","m","e","s">>, <<"b","u","r","n","_","s","u","b","t","i","t","l","e","s">>, <<"e","x","t","r","a","c","t","_","s","u","b","t","i","t","l","e","s">>,
  <<"r","e","m","o","v","e","_","a","u","d","i","o">>, <<"o","v","e","r","l","a","y">>}

\* `if not repaired.get("inputs") and repaired.get("action") in actions_needing_inputs`
InfersInputs(repaired) ==
  /\ ~Truthy(Get(repaired, "inputs"))
  /\ Get(repaired, "action").t = "str"
  /\ Get(repaired, "action").s \in ACTIONS_NEEDING_INPUTS

(* ------------------ JSONRepair: extract_json_from_text ---------------- *)
\* s.find(sub, start) as a 1-based position, 0 when sub is not found
FindFrom(s, sub, start) ==
  LET at == {n \in start..(Len(s) - Len(sub) + 1) : SubSeq(s, n, n + Len(sub) - 1) = sub}
  IN IF at = {} THEN 0 ELSE CHOOSE n \in at : \A m \in at : n <= m

\* s.rfind(sub) as a 1-based position, 0 when sub is not found
RFind(s, sub) ==
  LET at == {n \in 1..(Len(s) - Len(sub) + 1) : SubSeq(s, n, n + Len(sub) - 1) = sub}
  IN IF at = {} THEN 0 ELSE CHOOSE n \in at : \A m \in at : n >= m

FENCE == <<Backquote, Backquote, Backquote>>
\* the openers of markdown_patterns, in order
MARKDOWN_OPENERS == <<FENCE \o <<"j","s","o","n">>, FENCE>>

NoBlock == [found |-> FALSE, content |-> <<>>]
\* re.search(opener + r"\s*([\s\S]*?)\s*```", text, re.IGNORECASE) and
\* match.group(1).strip(): the leftmost opener that a fence follows, and the
\* text up to the first such fence
SearchBlock(opener, text) ==
  LET open == FindFrom(LowerStr(text), opener, 1)
      close == IF open = 0 THEN 0 ELSE FindFrom(text, FENCE, open + Len(opener))
  IN IF close = 0 THEN NoBlock
     ELSE [found |-> TRUE, content |-> Strip(SubSeq(text, open + Len(opener), close - 1))]

\* `if match:` and `if extracted.startswith("{"):`
AcceptsBlock_any(match) == match.found
AcceptsBlock(match) == match.found /\ StartsWith(match.content, <<"{">>)

\* the loop over markdown_patterns from pattern number n on, then the search
\* between the first { and the last }
RECURSIVE ExtractFrom(_, _)
ExtractFrom(text, n) ==
  IF n <= Len(MARKDOWN_OPENERS)
  THEN LET match == SearchBlock(MARKDOWN_OPENERS[n], text)
       IN IF AcceptsBlock(match) THEN match.content
          ELSE ExtractFrom(text, n + 1)
  ELSE LET first_brace == FindFrom(text, <<"{">>, 1)
           last_brace == RFind(text, <<"}">>)
       IN IF first_brace # 0 /\ last_brace # 0 /\ last_brace > first_brace
          THEN SubSeq(text, first_brace, last_brace)
          ELSE text

\* JSONRepair.extract_json_from_text
ExtractJsonFromText(text) ==
  IF text = <<>> THEN text
  ELSE LET stripped == Strip(text)
       IN IF StartsWith(stripped, <<"{">>) /\ EndsWith(stripped, <<"}">>) THEN stripped
          ELSE ExtractFrom(stripped, 1)

(* ----------------------- inputs of the retry loop --------------------- *)
ORIGINAL_PROMPT == <<"c","o","n","v","e","r","t"," ","i","n",".","m","p","4"," ","t","o"," ","w","e","b","m">>

CmdSafe == <<<<"f","f","m","p","e","g">>, <<"-","i">>, <<"i","n",".","m","p","4">>, <<"o","u","t",".","m","p","4">>>>
\* a compiled command tampered with afterwards (scenario C)
CmdTampered == <<<<"f","f","m","p","e","g">>, <<"-","i">>, <<"i","n",".","m","p","4">>, <<";">>, <<"r","m">>, <<"-","r","f">>, <<"/">>>>
CmdProbe == <<<<"f","f","p","r","o","b","e">>, <<"i","n",".","m","p","4">>>>
CmdAbsolute == <<<<"/","u","s","r","/","b","i","n","/","f","f","m","p","e","g">>, <<"-","i">>, <<"i","n",".","m","p","4">>, <<"o","u","t",".","m","p","4">>>>

CommandPool == {CmdSafe, CmdTampered, CmdProbe, CmdAbsolute}

\* the paths that may or may not exist when a command is validated
Files == {<<"i","n",".","m","p","4">>}

StderrUnknownEncoder == <<"U","n","k","n","o","w","n"," ","e","n","c","o","d","e","r"," ","'","l","i","b","x","9","9","9","'","\n">>
StderrBracketed == <<"[","a","a","c"," ","@"," ","0","x","1","]"," ","b","a","d","\n","I","n","v","a","l","i","d"," ","a","r","g","u","m","e","n","t","\n">>
StderrPool == {<<>>, StderrUnknownEncoder, StderrBracketed}

DryOutcomes == {ProcExit(0, <<>>), ProcTimeout, ProcNotFound, ProcException}
                 \cup {ProcExit(1, e) : e \in StderrPool}

\* subprocess.run(check=True) of the full command: exit 0, CalledProcessError
\* (a non-zero exit with the captured stderr) or TimeoutExpired
FullOutcomes == {ProcExit(0, <<>>), ProcTimeout} \cup {ProcExit(1, e) : e \in StderrPool}

(* ---------------- inputs of the pure-function specifications ---------- *)
ExeVocab == {<<"f","f","m","p","e","g">>, <<"f","f","p","r","o","b","e">>, <<"/","u","s","r","/","b","i","n","/","f","f","m","p","e","g">>, <<>>, <<"p","y","t","h","o","n">>, <<"b","a","s","h">>,
             <<"s","h">>, <<"c","u","r","l">>, <<"w","g","e","t">>, <<"f","f","m","p","e","g",".","s","h">>}

ArgVocab == {<<"-","i">>, <<"i","n",".","m","p","4">>, <<"-","v","f">>, <<"a",";","b">>, <<"x","&","y">>, <<"p","|","q">>, <<Backquote,"i","d",Backquote>>, <<"$","(","i","d",")">>,
             <<"$","{","H","}">>, <<">","/","e","t","c">>, <<">","\\","x">>, <<"$","x">>}

RECURSIVE SeqsUpTo(_, _)
SeqsUpTo(S, n) ==
  IF n = 0 THEN {<<>>}
  ELSE LET shorter == SeqsUpTo(S, n - 1)
       IN shorter \cup {Append(s, x) : s \in {t \in shorter : Len(t) = n - 1}, x \in S}

SecureInputs == {<<>>} \cup {<<e>> \o a : e \in ExeVocab, a \in SeqsUpTo(ArgVocab, MaxArgs)}

\* the parameters of test_rejects_shell_injection
ShellInjectionCases == {
  <<<<"f","f","m","p","e","g">>, <<"-","i">>, <<"t","e","s","t",".","m","p","4">>, <<";">>, <<"r","m">>, <<"-","r","f">>, <<"/">>>>,
  <<<<"f","f","m","p","e","g">>, <<"-","i">>, <<"$","(","c","a","t"," ","/","e","t","c","/","p","a","s","s","w","d",")">>, <<"-","o">>, <<"o","u","t",".","m","p","4">>>>,
  <<<<"f","f","m","p","e","g">>, <<"-","i">>, <<"t","e","s","t",".","m","p","4">>, <<"|">>, <<"c","u","r","l">>, <<"e","v","i","l",".","c","o","m">>>>,
  <<<<"f","f","m","p","e","g">>, <<"-","i">>, <<Backquote,"w","h","o","a","m","i",Backquote>>, <<"-","o">>, <<"o","u","t",".","m","p","4">>>>,
  <<<<"f","f","m","p","e","g">>, <<"-","i">>, <<"$","{","H","O","M","E","}","/",".","s","s","h","/","i","d","_","r","s","a">>, <<"-","o">>, <<"o","u","t",".","m","p","4">>>>,
  <<<<"f","f","m","p","e","g">>, <<"-","i">>, <<"t","e","s","t",".","m","p","4">>, <<"&">>, <<"m","a","l","i","c","i","o","u","s","_","c","o","m","m","a","n","d">>>>,
  <<<<"f","f","m","p","e","g">>, <<"-","i">>, <<"t","e","s","t",".","m","p","4">>, <<"r","m">>, <<"-","r","f">>, <<"/","t","m","p">>>>,
  <<<<"f","f","m","p","e","g">>, <<"-","i">>, <<"t","e","s","t",".","m","p","4">>, <<"s","u","d","o">>, <<"r","m">>, <<"-","r","f">>, <<"/">>>>,
  <<<<"f","f","m","p","e","g">>, <<"-","i">>, <<"t","e","s","t",".","m","p","4">>, <<"c","h","m","o","d">>, <<"7","7","7">>, <<"/","e","t","c","/","p","a","s","s","w","d">>>>,
  <<<<"f","f","m","p","e","g">>, <<"-","i">>, <<"t","e","s","t",".","m","p","4">>, <<"d","d">>, <<"i","f","=","/","d","e","v","/","z","e","r","o">>, <<"o","f","=","/","d","e","v","/","s","d","a">>>>,
  <<<<"f","f","m","p","e","g">>, <<"-","i">>, <<"t","e","s","t",".","m","p","4">>, <<"m","k","f","s">>, <<"/","d","e","v","/","s","d","a">>>>,
  <<<<"f","f","m","p","e","g">>, <<"-","i">>, <<"t","e","s","t",".","m","p","4">>, <<"s","y","s","t","e","m","(","r","m"," ","-","r","f"," ","/",")">>>>,
  <<<<"f","f","m","p","e","g">>, <<"-","i">>, <<"t","e","s","t",".","m","p","4">>, <<"e","x","e","c","(","/","b","i","n","/","s","h",")">>>>,
  <<<<"f","f","m","p","e","g">>, <<"-","i">>, <<"t","e","s","t",".","m","p","4">>, <<"e","v","a","l","(","m","a","l","i","c","i","o","u","s","_","c","o","d","e",")">>>>,
  <<<<"f","f","m","p","e","g">>, <<"-","i">>, <<"t","e","s","t",".","m","p","4">>, <<"d","e","l">>, <<"/","s">>, <<"C",":","\\","W","i","n","d","o","w","s">>>>,
  <<<<"f","f","m","p","e","g">>, <<"-","i">>, <<"t","e","s","t",".","m","p","4">>, <<"f","o","r","m","a","t">>, <<"C",":">>>>,
  <<<<"f","f","m","p","e","g">>, <<"-","i">>, <<"t","e","s","t",".","m","p","4">>, <<">","/","e","t","c","/","p","a","s","s","w","d">>>> }

\* the parameters of test_allows_safe_commands
SafeCases == {
  <<<<"f","f","m","p","e","g">>, <<"-","i">>, <<"i","n","p","u","t",".","m","p","4">>, <<"-","c",":","v">>, <<"l","i","b","x","2","6","4">>, <<"o","u","t","p","u","t",".","m","p","4">>>>,
  <<<<"f","f","m","p","e","g">>, <<"-","i">>, <<"m","y"," ","v","i","d","e","o",".","m","p","4">>, <<"-","v","f">>, <<"s","c","a","l","e","=","1","9","2","0",":","1","0","8","0">>, <<"o","u","t",".","m","p","4">>>>,
  <<<<"f","f","m","p","e","g">>, <<"-","i">>, <<"v","i","d","e","o",".","m","p","4">>, <<"-","q",":","a">>, <<"0">>, <<"-","m","a","p">>, <<"a">>, <<"a","u","d","i","o",".","m","p","3">>>>,
  <<<<"f","f","m","p","e","g">>, <<"-","i">>, <<"v","i","d","e","o",".","m","p","4">>, <<"-","s","s">>, <<"0","0",":","0","1",":","0","0">>, <<"-","v","f","r","a","m","e","s">>, <<"1">>, <<"t","h","u","m","b",".","j","p","g">>>>,
  <<<<"f","f","m","p","e","g">>, <<"-","i">>, <<"v","i","d","e","o",".","m","p","4">>, <<"-","c","r","f">>, <<"2","8">>, <<"-","c",":","v">>, <<"l","i","b","x","2","6","5">>, <<"c","o","m","p","r","e","s","s","e","d",".","m","p","4">>>>,
  <<<<"f","f","m","p","e","g">>, <<"-","i">>, <<"v","i","d","e","o",".","m","p","4">>, <<"-","s","s">>, <<"0","0",":","0","0",":","1","0">>, <<"-","t","o">>, <<"0","0",":","0","0",":","3","0">>, <<"t","r","i","m","m","e","d",".","m","p","4">>>>,
  <<<<"f","f","m","p","e","g">>, <<"-","i">>, <<"v","i","d","e","o",".","a","v","i">>, <<"-","c",":","v">>, <<"c","o","p","y">>, <<"-","c",":","a">>, <<"c","o","p","y">>, <<"v","i","d","e","o",".","m","p","4">>>>,
  <<<<"f","f","m","p","e","g">>, <<"-","i">>, <<"v","i","d","e","o",".","m","p","4">>, <<"-","v","f">>, <<"s","c","a","l","e","=","1","2","8","0",":","7","2","0",",","f","p","s","=","3","0">>, <<"o","u","t","p","u","t",".","m","p","4">>>>,
  <<<<"f","f","m","p","e","g">>, <<"-","i">>, <<"f","o","r","m","a","t","t","i","n","g","_","v","i","d","e","o",".","m","p","4">>, <<"-","c",":","v">>, <<"l","i","b","x","2","6","4">>, <<"o","u","t","p","u","t",".","m","p","4">>>>,
  <<<<"f","f","m","p","e","g">>, <<"-","i">>, <<"a","r","m","_","w","r","e","s","t","l","i","n","g",".","m","p","4">>, <<"-","c",":","v">>, <<"l","i","b","x","2","6","4">>, <<"o","u","t","p","u","t",".","m","p","4">>>>,
  <<<<"f","f","m","p","e","g">>, <<"-","i">>, <<"d","e","l","e","t","e","d","_","s","c","e","n","e","s",".","m","p","4">>, <<"-","c",":","v">>, <<"l","i","b","x","2","6","4">>, <<"o","u","t","p","u","t",".","m","p","4">>>>,
  <<<<"f","f","m","p","e","g">>, <<"-","h","w","a","c","c","e","l">>, <<"c","u","d","a">>, <<"-","i">>, <<"v","i","d","e","o",".","m","p","4">>, <<"o","u","t","p","u","t",".","m","p","4">>>> }

\* the command of test_ffprobe_is_allowed
ProbeDurationQuery == <<<<"f","f","p","r","o","b","e">>, <<"-","v">>, <<"e","r","r","o","r">>, <<"-","s","h","o","w","_","e","n","t","r","i","e","s">>, <<"f","o","r","m","a","t","=","d","u","r","a","t","i","o","n">>, <<"-","o","f">>, <<"j","s","o","n">>, <<"v","i","d","e","o",".","m","p","4">>>>

\* the filenames of test_word_boundary_prevents_false_positives
EmbeddedNames == {<<"a","r","m",".","m","p","4">>, <<"s","t","o","r","m",".","m","p","4">>, <<"f","o","r","m","a","t","t","i","n","g",".","m","p","4">>, <<"r","e","f","o","r","m","a","t",".","m","p","4">>, <<"d","e","l","e","t","e",".","m","p","4">>, <<"m","o","d","e","l",".","m","p","4">>, <<"e","x","e","c","_","s","u","m","m","a","r","y",".","m","p","4">>, <<"s","y","s","t","e","m","d",".","m","p","4">>}

WordBoundaryCases == {<<<<"f","f","m","p","e","g">>, <<"-","i">>, name, <<"o","u","t",".","m","p","4">>>> : name \in EmbeddedNames}

\* the commands of test_case_insensitive_detection
CaseCases == {
  <<<<"f","f","m","p","e","g">>, <<"-","i">>, <<"t","e","s","t",".","m","p","4">>, <<"R","M">>, <<"-","R","F">>, <<"/">>>>,
  <<<<"f","f","m","p","e","g">>, <<"-","i">>, <<"t","e","s","t",".","m","p","4">>, <<"R","m">>, <<"-","r","F">>, <<"/">>>>,
  <<<<"f","f","m","p","e","g">>, <<"-","i">>, <<"t","e","s","t",".","m","p","4">>, <<"S","U","D","O">>, <<"r","m">>>>,
  <<<<"f","f","m","p","e","g">>, <<"-","i">>, <<"t","e","s","t",".","m","p","4">>, <<"S","u","D","o">>, <<"r","m">>>>,
  <<<<"f","f","m","p","e","g">>, <<"-","i">>, <<"t","e","s","t",".","m","p","4">>, <<"C","H","M","O","D">>, <<"7","7","7">>, <<"/">>>>,
  <<<<"f","f","m","p","e","g">>, <<"-","i">>, <<"t","e","s","t",".","m","p","4">>, <<"D","D">>, <<"i","f","=","/","d","e","v","/","z","e","r","o">>>> }

TestCommands ==
  ShellInjectionCases \cup SafeCases \cup {ProbeDurationQuery} \cup WordBoundaryCases \cup CaseCases

\* arguments that spell the destructive and privileged command forms, whole,
\* embedded, at a word boundary inside a filename and in mixed case, next to
\* a filter flag, a separator and a redirection split over two arguments
WordVocab == {<<"-","i">>, <<"/","e","t","c">>, <<"-","v","f">>, <<"r","m">>, <<"a",";","b">>, <<">">>, <<"x",".","r","m">>, <<"d","e","l">>, <<"f","o","r","m","a","t">>, <<"C",":">>, <<"S","u","D","o">>, <<"c","h","m","o","d">>, <<"C","H","O","W","N">>, <<"m","k","f","s">>, <<"d","d">>, <<"i","f","=","x">>, <<"s","y","s","t","e","m","(","x",")">>, <<"e","x","e","c"," ","(","x",")">>, <<"e","v","a","l","(","x",")">>, <<"a","r","m",".","m","p","4">>}

WordInputs == TestCommands \cup {<<<<"f","f","m","p","e","g">>>> \o a : a \in SeqsUpTo(WordVocab, MaxWords)}

\* values put in the place of a filter value: a filter graph with and without
\* separators, a shell separator, a command form and a filter flag
FilterValues == {<<"s","c","a","l","e","=","1",":","1">>, <<"[","0","]","a",";","[","1","]","b">>, <<"x","&","y">>, <<"r","m"," ","-","r","f"," ","/">>, <<"-","a","f">>}

\* paths that may or may not exist when validate_ffmpeg_command is called
ValFiles == {<<"a",".","m","p","4">>, <<"b",".","m","p","3">>, <<"p","i","p","e",":","0">>}

ValExes == {<<"f","f","m","p","e","g">>, <<"f","f","p","r","o","b","e">>, <<"/","u","s","r","/","b","i","n","/","f","f","m","p","e","g">>}

ValVocab == {<<"-","i">>, <<"a",".","m","p","4">>, <<"b",".","m","p","3">>, <<"p","i","p","e",":","0">>, <<"o","u","t",".","m","p","4">>}

\* commands with every kind of pseudo-input
PseudoInputCases == {
  <<<<"f","f","m","p","e","g">>, <<"-","i">>, <<"h","t","t","p",":","/","/","h","/","v",".","m","p","4">>, <<"o","u","t",".","m","p","4">>>>,
  <<<<"f","f","m","p","e","g">>, <<"-","i">>, <<"h","t","t","p","s",":","/","/","h","/","v",".","m","p","4">>, <<"-","i">>, <<"a",".","m","p","4">>, <<"o","u","t",".","m","p","4">>>>,
  <<<<"f","f","m","p","e","g">>, <<"-","i">>, <<"-">>, <<"o","u","t",".","m","p","4">>>>,
  <<<<"f","f","m","p","e","g">>, <<"-","i">>, <<"p","i","p","e",":","0">>, <<"-","i">>, <<"a",".","m","p","4">>, <<"-","i">>, <<"b",".","m","p","3">>, <<"o","u","t",".","m","p","4">>>> }

ValInputs ==
  {<<>>} \cup PseudoInputCases
    \cup {<<e>> \o a : e \in ValExes, a \in SeqsUpTo(ValVocab, MaxValArgs)}

\* a diagnostic of bracketed lines only, longer than the 200 characters kept
StderrLongBracketed == <<"[","m","o","v"," ","@"," ","0","x","1","]"," ">> \o [n \in 1..250 |-> "e"] \o <<"\n">>
StderrBlank == <<"\n","\n">>

ValDryOutcomes ==
  DryOutcomes \cup {ProcExit(1, StderrLongBracketed), ProcExit(1, StderrBlank),
                    ProcExit(255, StderrUnknownEncoder)}

Plans == SeqsUpTo(CommandPool, MaxPlanLen)

(* ------------------------------ state --------------------------------- *)
VARIABLES
  \* execute_with_retry
  pc,                \* "validate", "regen", "llm", "gate", "run", "returned", "raised" ("idle": not running)
  attempt,           \* the loop variable attempt
  i,                 \* 1-based index of the command the validation loop is at
  current_commands,  \* the local current_commands
  gen,               \* which list current_commands is: 0 the caller's, n the n-th regenerated
  last_error,        \* the ExecError caught last
  pending,           \* the failure handed to _regenerate_commands
  result,            \* how execute_with_retry ended
  \* CommandExecutor._execute_commands
  cmd_num,           \* 1-based index of the command the batch is at
  started,           \* indices of the batch whose full subprocess was started, in order
  completed,         \* indices of the batch whose subprocess exited 0, in order
  sec_check,         \* the call of _is_command_secure made by the step just taken, if any
  \* what the environment saw
  last_proc,         \* the subprocess started by the step just taken, if any
  llm_prompt,        \* the prompt of the LLM call in flight
  executor_calls,    \* number of calls of executor_func
  llm_calls,         \* number of calls of the LLM client
  regen_exc,         \* class of the exception that ended the try block of _regenerate_commands last ("none": it returned commands)
  passed,            \* indices that passed validate_ffmpeg_command in this attempt
  failed,            \* indices that failed it in this attempt without ending the attempt
  \* _is_command_secure called on its own
  sc_pc,             \* "call" before, "done" after the call ("idle": not running)
  sc_command,        \* the argument list passed to _is_command_secure
  sc_verdict,        \* its return value
  sc_error,          \* the ExecError _validate_command_security raised, called on its own
  \* validate_ffmpeg_command called on its own
  v_pc,              \* "call" before, "done" after the call ("idle": not running)
  v_cmd,             \* the argument list passed to it
  v_fs,              \* the paths that exist on disk
  v_dry,             \* what subprocess.run of the dry check did, if it ran
  v_result,          \* the returned (ok, msg) and the dry-check command started
  \* CommandExecutor.run called on its own
  r_pc,              \* "call", "exec" (inside _execute_commands), "returned", "raised" ("idle": not running)
  r_args,            \* the arguments commands, confirm, dry_run and show_preview
  r_previewed,       \* whether preview(commands) was called
  r_said,            \* which of the three early-return notices was printed
  r_idx,             \* 1-based index of the command _execute_commands is at
  r_procs,           \* the argument lists subprocess.run was started with, in order
  r_ret,             \* how run ended
  \* JSONRepair.repair_json_for_schema
  j_pc,              \* the statement repair_json_for_schema is at
  j_data,            \* its argument data: None or an object
  j_query,           \* its argument user_query
  j_workspace,       \* its argument workspace
  j_repaired,        \* its local repaired, and at "done" the object it returned
  \* JSONRepair.extract_json_from_text
  x_pc,              \* "call" before, "done" after extract_json_from_text ("idle": not running)
  x_text,            \* its argument text
  x_result,          \* the string it returned
  \* MediaLLM.generate_plan and generate_commands
  a_pc,              \* the statement the call is at ("idle": not running)
  a_method,          \* "generate_plan" or "generate_commands"
  a_request,         \* its argument request
  a_workspace,       \* self._workspace is not None
  a_llm,             \* self._llm is not None
  a_scans,           \* number of calls of discover_media
  a_inits,           \* number of calls of _initialize_llm
  a_parses,          \* number of calls of parse_query
  a_cause,           \* where an exception came up first and its class
  a_exc,             \* class of the exception the call raised to its caller ("none": it returned)
  \* CommandExecutor._execute_single_command
  s_pc,              \* "call", "run", "called", "returned", "raised" ("idle": not running)
  s_cmd,             \* its argument cmd
  s_timeout,         \* its argument timeout (0: None)
  s_found,           \* the answer of shutil.which(cmd[0])
  s_proc,            \* what subprocess.run did
  s_exc,             \* the exception it raised: class and str() ("none": it returned)
  \* _ffprobe_duration
  p_pc,              \* "call", "run", "parse", "returned", "raised" ("idle": not running)
  p_found,           \* shutil.which("ffprobe") is not None
  p_timeout,         \* its argument timeout (0: None)
  p_proc,            \* what subprocess.run did
  p_ret,             \* what it returned, or the class of the exception it raised
  \* MediaLLM: the workspace cache over the life of one object
  w_workspace,       \* self._workspace
  w_given,           \* a workspace was passed to the constructor
  w_lazy,            \* number of scans made by _ensure_workspace
  w_explicit,        \* number of calls of scan_workspace
  w_calls,           \* number of calls made on the object
  w_ret,             \* the last call: its method, how it ended, the snapshot it got
  \* one session: generate_plan, then the _regenerate_commands calls of the retry loop
  g_pc,              \* "plan", "ready", "parse", "dispatch", "build", "ended" ("idle": not running)
  g_original,        \* the arguments generate_plan gave dispatch_task
  g_prompt,          \* the local enhanced_prompt
  g_compiles,        \* the arguments of every dispatch_task call of _regenerate_commands
  g_regens,          \* number of _regenerate_commands calls so far
  g_ret,             \* what the last _regenerate_commands call returned
  \* one call of _clean_path_string
  k_pc,              \* "call" before, "done" after _clean_path_string ("idle": not running)
  k_path_str,        \* the argument path_str
  k_workspace,       \* the argument workspace
  k_ret,             \* the string it returned
  \* main
  main_exc,          \* class of the exception that left terminal_app() ("none": it returned)
  exit_code          \* the status the process exited with

retryVars == <<pc, attempt, i, current_commands, gen, last_error, pending, result,
               cmd_num, started, completed, sec_check, last_proc, llm_prompt,
               executor_calls, llm_calls, regen_exc, passed, failed>>
secureVars == <<sc_pc, sc_command, sc_verdict, sc_error>>
mainVars == <<main_exc, exit_code>>
validateVars == <<v_pc, v_cmd, v_fs, v_dry, v_result>>
runVars == <<r_pc, r_args, r_previewed, r_said, r_idx, r_procs, r_ret>>
repairVars == <<j_pc, j_data, j_query, j_workspace, j_repaired>>
extractVars == <<x_pc, x_text, x_result>>
apiVars == <<a_pc, a_method, a_request, a_workspace, a_llm, a_scans, a_inits, a_parses,
             a_cause, a_exc>>
singleVars == <<s_pc, s_cmd, s_timeout, s_found, s_proc, s_exc>>
probeVars == <<p_pc, p_found, p_timeout, p_proc, p_ret>>
cacheVars == <<w_workspace, w_given, w_lazy, w_explicit, w_calls, w_ret>>
regenVars == <<g_pc, g_original, g_prompt, g_compiles, g_regens, g_ret>>
cleanVars == <<k_pc, k_path_str, k_workspace, k_ret>>
nonRetryVars == <<secureVars, mainVars, validateVars, runVars, repairVars, extractVars, apiVars, singleVars, probeVars, cacheVars, regenVars, cleanVars>>
nonSecureVars == <<retryVars, mainVars, validateVars, runVars, repairVars, extractVars, apiVars, singleVars, probeVars, cacheVars, regenVars, cleanVars>>
nonMainVars == <<retryVars, validateVars, runVars, repairVars, extractVars, apiVars, singleVars, probeVars, cacheVars, regenVars, cleanVars>>
nonValidateVars == <<retryVars, secureVars, mainVars, runVars, repairVars, extractVars, apiVars, singleVars, probeVars, cacheVars, regenVars, cleanVars>>
nonRunVars == <<retryVars, secureVars, mainVars, validateVars, repairVars, extractVars, apiVars, singleVars, probeVars, cacheVars, regenVars, cleanVars>>
nonRepairVars == <<retryVars, secureVars, mainVars, validateVars, runVars, extractVars, apiVars, singleVars, probeVars, cacheVars, regenVars, cleanVars>>
nonExtractVars == <<retryVars, secureVars, mainVars, validateVars, runVars, repairVars, apiVars, singleVars, probeVars, cacheVars, regenVars, cleanVars>>
nonApiVars == <<retryVars, secureVars, mainVars, validateVars, runVars, repairVars, extractVars, singleVars, probeVars, cacheVars, regenVars, cleanVars>>
nonSingleVars == <<retryVars, secureVars, mainVars, validateVars, runVars, repairVars, extractVars, apiVars, probeVars, cacheVars, regenVars, cleanVars>>
nonProbeVars == <<retryVars, secureVars, mainVars, validateVars, runVars, repairVars, extractVars, apiVars, singleVars, cacheVars, regenVars, cleanVars>>
nonCacheVars == <<retryVars, secureVars, mainVars, validateVars, runVars, repairVars, extractVars, apiVars, singleVars, probeVars, regenVars, cleanVars>>
nonRegenVars == <<retryVars, secureVars, mainVars, validateVars, runVars, repairVars, extractVars, apiVars, singleVars, probeVars, cacheVars, cleanVars>>
nonCleanVars == <<retryVars, secureVars, mainVars, validateVars, runVars, repairVars, extractVars, apiVars, singleVars, probeVars, cacheVars, regenVars>>
vars == <<retryVars, secureVars, mainVars, validateVars, runVars, repairVars, extractVars, apiVars, singleVars, probeVars, cacheVars, regenVars, cleanVars>>

NoPending == [from |-> "none", msg |-> <<>>]
NoResult == [kind |-> "none", code |-> 0, gen |-> 0, error |-> NoError]
NoProc == [phase |-> "none", argv |-> <<>>, cmd |-> <<>>]
NoCheck == [argv |-> <<>>, ok |-> FALSE, attempt |-> 0, cmd_num |-> 0]

RetryIdle ==
  /\ pc = "idle" /\ attempt = 0 /\ i = 0 /\ current_commands = <<>> /\ gen = 0
  /\ last_error = NoError /\ pending = NoPending /\ result = NoResult
  /\ cmd_num = 0 /\ started = <<>> /\ completed = <<>> /\ sec_check = NoCheck
  /\ last_proc = NoProc /\ llm_prompt = <<>> /\ executor_calls = 0 /\ llm_calls = 0
  /\ regen_exc = "none"
  /\ passed = {} /\ failed = {}

SecureIdle == sc_pc = "idle" /\ sc_command = <<>> /\ sc_verdict = FALSE /\ sc_error = NoError

MainIdle == main_exc = "none" /\ exit_code = 0

\* no subprocess.run was reached
NoDry == [kind |-> "none", rc |-> 0, stderr |-> <<>>]
NoValResult == [ok |-> FALSE, msg |-> <<>>, proc |-> NoCommand]

ValidateIdle ==
  v_pc = "idle" /\ v_cmd = <<>> /\ v_fs = {} /\ v_dry = NoDry /\ v_result = NoValResult

NoArgs == [commands |-> <<>>, confirm |-> FALSE, dry_run |-> FALSE, show_preview |-> FALSE]
NoReturn == [kind |-> "none", code |-> 0, error |-> NoError]

RunIdle ==
  /\ r_pc = "idle" /\ r_args = NoArgs /\ r_previewed = FALSE /\ r_said = "nothing"
  /\ r_idx = 0 /\ r_procs = <<>> /\ r_ret = NoReturn

NoWorkspace == [videos |-> <<>>, audios |-> <<>>, images |-> <<>>, subtitle_files |-> <<>>]

RepairIdle ==
  /\ j_pc = "idle" /\ j_data = NoneData /\ j_query = <<>> /\ j_workspace = NoWorkspace
  /\ j_repaired = EmptyObject

ExtractIdle == x_pc = "idle" /\ x_text = <<>> /\ x_result = <<>>

NoRequest == [chars |-> <<>>, repeat |-> 0]
NoCause == [at |-> "none", class |-> "none"]

ApiIdle ==
  /\ a_pc = "idle" /\ a_method = "none" /\ a_request = NoRequest /\ a_workspace = FALSE
  /\ a_llm = FALSE /\ a_scans = 0 /\ a_inits = 0 /\ a_parses = 0 /\ a_cause = NoCause
  /\ a_exc = "none"

NoRaise == [class |-> "none", msg |-> <<>>]
NoRun == [kind |-> "none", rc |-> 0, stderr |-> <<>>]

SingleIdle ==
  /\ s_pc = "idle" /\ s_cmd = <<>> /\ s_timeout = 0 /\ s_found = FALSE
  /\ s_proc = NoRun /\ s_exc = NoRaise

NoProbe == [kind |-> "none", rc |-> 0, text |-> <<>>, pad |-> 0, stderr |-> <<>>, timeout |-> 0]
NoDuration == [kind |-> "none", value |-> <<>>]

ProbeIdle ==
  /\ p_pc = "idle" /\ p_found = FALSE /\ p_timeout = 0
  /\ p_proc = NoProbe /\ p_ret = NoDuration

\* a workspace dict: the keys it has and the list under each of them; None
WorkspaceDict(keys, videos, audios, images, subtitle_files) ==
  [none |-> FALSE, keys |-> keys, videos |-> videos, audios |-> audios, images |-> images,
   subtitle_files |-> subtitle_files]
NoneWorkspace == [WorkspaceDict({}, <<>>, <<>>, <<>>, <<>>) EXCEPT !.none = TRUE]
NoFiles == [videos |-> <<>>, audios |-> <<>>, images |-> <<>>, subtitles |-> <<>>]
NoCall == [method |-> "none", kind |-> "none", exc |-> "none", ws |-> NoneWorkspace,
           files |-> NoFiles]

CacheIdle ==
  /\ w_workspace = NoneWorkspace /\ w_given = FALSE /\ w_lazy = 0 /\ w_explicit = 0
  /\ w_calls = 0 /\ w_ret = NoCall

\* an argument that was passed, and one left to its default
Passed(value) == [passed |-> TRUE, value |-> value]
NotPassed == [passed |-> FALSE, value |-> <<>>]
\* the None a parameter is given explicitly
NoneValue == [passed |-> TRUE, value |-> <<"None">>]
NoCompile == [allowed_dirs |-> NotPassed, output_dir |-> NotPassed]

RegenIdle ==
  /\ g_pc = "idle" /\ g_original = NoCompile /\ g_prompt = <<>> /\ g_compiles = <<>>
  /\ g_regens = 0 /\ g_ret = "none"

CleanIdle ==
  k_pc = "idle" /\ k_path_str = <<>> /\ k_workspace = NoWorkspace /\ k_ret = <<>>

NonRetryIdle == SecureIdle /\ MainIdle /\ ValidateIdle /\ RunIdle /\ RepairIdle /\ ExtractIdle /\ ApiIdle /\ SingleIdle /\ ProbeIdle /\ CacheIdle /\ RegenIdle /\ CleanIdle
NonSecureIdle == RetryIdle /\ MainIdle /\ ValidateIdle /\ RunIdle /\ RepairIdle /\ ExtractIdle /\ ApiIdle /\ SingleIdle /\ ProbeIdle /\ CacheIdle /\ RegenIdle /\ CleanIdle
NonMainIdle == RetryIdle /\ ValidateIdle /\ RunIdle /\ RepairIdle /\ ExtractIdle /\ ApiIdle /\ SingleIdle /\ ProbeIdle /\ CacheIdle /\ RegenIdle /\ CleanIdle
NonValidateIdle == RetryIdle /\ SecureIdle /\ MainIdle /\ RunIdle /\ RepairIdle /\ ExtractIdle /\ ApiIdle /\ SingleIdle /\ ProbeIdle /\ CacheIdle /\ RegenIdle /\ CleanIdle
NonRunIdle == RetryIdle /\ SecureIdle /\ MainIdle /\ ValidateIdle /\ RepairIdle /\ ExtractIdle /\ ApiIdle /\ SingleIdle /\ ProbeIdle /\ CacheIdle /\ RegenIdle /\ CleanIdle
NonRepairIdle == RetryIdle /\ SecureIdle /\ MainIdle /\ ValidateIdle /\ RunIdle /\ ExtractIdle /\ ApiIdle /\ SingleIdle /\ ProbeIdle /\ CacheIdle /\ RegenIdle /\ CleanIdle
NonExtractIdle == RetryIdle /\ SecureIdle /\ MainIdle /\ ValidateIdle /\ RunIdle /\ RepairIdle /\ ApiIdle /\ SingleIdle /\ ProbeIdle /\ CacheIdle /\ RegenIdle /\ CleanIdle
NonApiIdle == RetryIdle /\ SecureIdle /\ MainIdle /\ ValidateIdle /\ RunIdle /\ RepairIdle /\ ExtractIdle /\ SingleIdle /\ ProbeIdle /\ CacheIdle /\ RegenIdle /\ CleanIdle
NonSingleIdle == RetryIdle /\ SecureIdle /\ MainIdle /\ ValidateIdle /\ RunIdle /\ RepairIdle /\ ExtractIdle /\ ApiIdle /\ ProbeIdle /\ CacheIdle /\ RegenIdle /\ CleanIdle
NonProbeIdle == RetryIdle /\ SecureIdle /\ MainIdle /\ ValidateIdle /\ RunIdle /\ RepairIdle /\ ExtractIdle /\ ApiIdle /\ SingleIdle /\ CacheIdle /\ RegenIdle /\ CleanIdle
NonCacheIdle == RetryIdle /\ SecureIdle /\ MainIdle /\ ValidateIdle /\ RunIdle /\ RepairIdle /\ ExtractIdle /\ ApiIdle /\ SingleIdle /\ ProbeIdle /\ RegenIdle /\ CleanIdle
NonRegenIdle == RetryIdle /\ SecureIdle /\ MainIdle /\ ValidateIdle /\ RunIdle /\ RepairIdle /\ ExtractIdle /\ ApiIdle /\ SingleIdle /\ ProbeIdle /\ CacheIdle /\ CleanIdle
NonCleanIdle == RetryIdle /\ SecureIdle /\ MainIdle /\ ValidateIdle /\ RunIdle /\ RepairIdle /\ ExtractIdle /\ ApiIdle /\ SingleIdle /\ ProbeIdle /\ CacheIdle /\ RegenIdle

(* --------------------------- exception classes ------------------------ *)
\* the exception classes main() names, with their base classes: the error
\* kinds of the taxonomy are siblings under MediaLLMError
ERROR_KINDS == {"SecurityError", "ValidationError", "ConfigError", "TranslationError",
                "ConstructionError", "ExecError"}

\* the other exception classes the package names or lets through
OTHER_ERRORS == {"OSError", "RuntimeError", "ImportError", "UnboundLocalError", "ConnectError",
                 "TimeoutException", "ResponseError"}

BASE_CLASS ==
  [c \in ERROR_KINDS \cup OTHER_ERRORS \cup {"MediaLLMError", "Exception", "KeyboardInterrupt"} |->
     IF c \in ERROR_KINDS THEN "MediaLLMError"
     ELSE IF c \in OTHER_ERRORS \cup {"MediaLLMError"} THEN "Exception"
     ELSE "BaseException"]

ExceptionClasses == DOMAIN BASE_CLASS

\* issubclass(c, h)
RECURSIVE IsSubclass(_, _)
IsSubclass(c, h) ==
  IF c = h THEN TRUE
  ELSE IF c \notin DOMAIN BASE_CLASS THEN FALSE
  ELSE IsSubclass(BASE_CLASS[c], h)

\* what parse_query, dispatch_task and construct_operations raise in
\* _regenerate_commands: the backend failed, the response could not be
\* parsed, the intent could not be compiled
REGENERATE_ERRORS == {"ConfigError", "TranslationError", "ConstructionError"}
\* `except Exception as e:` of _regenerate_commands
RegenerateCatches(exc) == IsSubclass(exc, "Exception")

(* -------------------- execute_with_retry, step by step ---------------- *)
\* entry of execute_with_retry: attempt 1 on the caller's commands
Init ==
  /\ pc = "validate" /\ attempt = 1 /\ i = 1
  /\ current_commands \in Plans
  /\ gen = 0
  /\ last_error = NoError /\ pending = NoPending /\ result = NoResult
  /\ cmd_num = 0 /\ started = <<>> /\ completed = <<>> /\ sec_check = NoCheck
  /\ last_proc = NoProc /\ llm_prompt = <<>> /\ executor_calls = 0 /\ llm_calls = 0
  /\ regen_exc = "none"
  /\ passed = {} /\ failed = {}
  /\ NonRetryIdle

\* one iteration of `for i, cmd in enumerate(current_commands)`: the call of
\* validate_ffmpeg_command and the branch on its verdict
ValidateStep ==
  /\ pc = "validate"
  /\ i <= Len(current_commands)
  /\ \E fs \in SUBSET Files, dry \in DryOutcomes :
       LET cmd == current_commands[i]
           r == ValidateFfmpegCommand(cmd, fs, dry)
       IN /\ last_proc' = IF r.proc # NoCommand
                          THEN [phase |-> "dry", argv |-> r.proc, cmd |-> cmd]
                          ELSE NoProc
          /\ IF r.ok
             THEN /\ passed' = passed \cup {i}
                  /\ i' = i + 1
                  /\ UNCHANGED <<pc, pending, failed>>
             ELSE IF CanRegenerate(attempt)
             THEN /\ pc' = "regen"
                  /\ pending' = [from |-> "validate", msg |-> r.msg]
                  /\ UNCHANGED <<i, passed, failed>>
             ELSE /\ failed' = failed \cup {i}
                  /\ i' = i + 1
                  /\ UNCHANGED <<pc, pending, passed>>
  /\ sec_check' = NoCheck
  /\ UNCHANGED <<attempt, current_commands, gen, last_error, result, cmd_num, started,
                 completed, llm_prompt, executor_calls, llm_calls, regen_exc>>
  /\ UNCHANGED nonRetryVars

\* the else branch of the validation loop: executor_func(current_commands),
\* that is CommandExecutor.run(commands, confirm=True, dry_run=False) up to the
\* first command of _execute_commands
InvokeExecutor ==
  /\ pc = "validate"
  /\ i > Len(current_commands)
  /\ executor_calls' = executor_calls + 1
  /\ started' = <<>>
  /\ completed' = <<>>
  /\ IF current_commands = <<>>
     THEN /\ pc' = "returned"
          /\ result' = [kind |-> "return", code |-> 0, gen |-> gen, error |-> NoError]
          /\ UNCHANGED cmd_num
     ELSE /\ pc' = "gate"
          /\ cmd_num' = 1
          /\ UNCHANGED result
  /\ sec_check' = NoCheck
  /\ last_proc' = NoProc
  /\ UNCHANGED <<attempt, i, current_commands, gen, last_error, pending,
                 llm_prompt, llm_calls, regen_exc, passed, failed>>
  /\ UNCHANGED nonRetryVars

\* `except ExecError as e` in execute_with_retry, reached when the batch raises e
CatchExecError(e) ==
  /\ last_error' = e
  /\ IF CanRegenerate(attempt)
     THEN /\ pc' = "regen"
          /\ pending' = [from |-> "execute", msg |-> ErrorText(e)]
          /\ UNCHANGED result
     ELSE /\ pc' = "raised"
          /\ result' = [kind |-> "raise", code |-> 0, gen |-> gen, error |-> e]
          /\ UNCHANGED pending

\* _execute_commands after command cmd_num when no ExecError leaves the loop:
\* the next command, or the end of the batch and `return exit_code, current_commands`
\* (done: the commands counted in successful_commands)
NextInBatch(done) ==
  IF cmd_num < Len(current_commands)
  THEN /\ cmd_num' = cmd_num + 1
       /\ pc' = "gate"
       /\ UNCHANGED result
  ELSE /\ pc' = "returned"
       /\ result' = [kind |-> "return",
                     code |-> IF Len(done) = Len(current_commands) THEN 0 ELSE 1,
                     gen |-> gen, error |-> NoError]
       /\ UNCHANGED cmd_num

\* _execute_single_command raised e inside the try of _execute_commands
CommandFails(e) ==
  IF ReRaises
  THEN /\ CatchExecError(e)
       /\ UNCHANGED cmd_num
  ELSE /\ NextInBatch(completed)
       /\ UNCHANGED <<last_error, pending>>

\* _execute_single_command up to subprocess.run: _validate_command(cmd)
GateStep ==
  /\ pc = "gate"
  /\ \E found \in BOOLEAN :
       LET cmd == current_commands[cmd_num]
           verdict == ValidateCommand(cmd, found)
       IN /\ sec_check' = IF cmd # <<>> /\ found
                          THEN [argv |-> cmd, ok |-> IsCommandSecure(cmd),
                                attempt |-> attempt, cmd_num |-> cmd_num]
                          ELSE NoCheck
          /\ IF verdict = "ok"
             THEN /\ pc' = "run"
                  /\ UNCHANGED <<last_error, pending, result, cmd_num>>
             ELSE CommandFails(ExecError(verdict, cmd, 0, <<>>, attempt))
  /\ last_proc' = NoProc
  /\ UNCHANGED <<attempt, i, current_commands, gen, started, completed,
                 llm_prompt, executor_calls, llm_calls, regen_exc, passed, failed>>
  /\ UNCHANGED nonRetryVars

\* subprocess.run(cmd, check=True, timeout=...) in _execute_single_command and
\* what _execute_commands and execute_with_retry do with its outcome
RunStep ==
  /\ pc = "run"
  /\ LET cmd == current_commands[cmd_num]
     IN /\ last_proc' = [phase |-> "full", argv |-> cmd, cmd |-> cmd]
        /\ started' = Append(started, cmd_num)
        /\ \E out \in FullOutcomes :
             IF out.kind = "exit" /\ out.rc = 0
             THEN /\ completed' = Append(completed, cmd_num)
                  /\ NextInBatch(completed')
                  /\ UNCHANGED <<last_error, pending>>
             ELSE /\ CommandFails(ExecError(IF out.kind = "timeout" THEN "timeout" ELSE "called",
                                            cmd, out.rc, out.stderr, attempt))
                  /\ UNCHANGED completed
  /\ sec_check' = NoCheck
  /\ UNCHANGED <<attempt, i, current_commands, gen, llm_prompt,
                 executor_calls, llm_calls, regen_exc, passed, failed>>
  /\ UNCHANGED nonRetryVars

\* `for attempt in range(1, MAX_RETRY_ATTEMPTS + 1)`: the attempt after attempt_no
AttemptAfter_back(attempt_no) == attempt_no - 1
AttemptAfter(attempt_no) == attempt_no + 1

\* `if current_commands is None:` after a failed validation (return 1,
\* commands) and in the ExecError handler (raise): where the call ends
AfterFailedRegeneration_retry(from) == "validate"
AfterFailedRegeneration(from) == IF from = "validate" THEN "returned" ELSE "raised"

\* _regenerate_commands up to the call of the LLM client: the retry prompt is
\* built from the failure and sent with self._llm.parse_query
CallLLMStep ==
  /\ pc = "regen"
  /\ llm_prompt' = BuildRetryPrompt(ORIGINAL_PROMPT, pending.msg)
  /\ llm_calls' = llm_calls + 1
  /\ pending' = [from |-> pending.from, msg |-> <<>>]
  /\ pc' = "llm"
  /\ sec_check' = NoCheck
  /\ last_proc' = NoProc
  /\ UNCHANGED <<attempt, i, current_commands, gen, last_error, result, cmd_num,
                 started, completed, executor_calls, regen_exc, passed, failed>>
  /\ UNCHANGED nonRetryVars

\* the rest of _regenerate_commands and the statements after its call:
\* parse_query, dispatch_task or construct_operations may raise (then it
\* returns None), else there is a new plan
RegenerateStep ==
  /\ pc = "llm"
  /\ llm_prompt' = <<>>
  /\ pending' = NoPending
  /\ \/ \* an exception is caught and logged: current_commands is None
        /\ \E exc \in REGENERATE_ERRORS : RegenerateCatches(exc) /\ regen_exc' = exc
        /\ pc' = AfterFailedRegeneration(pending.from)
        /\ result' = IF pending.from = "validate"
                     THEN [kind |-> "return", code |-> 1, gen |-> 0, error |-> NoError]
                     ELSE [kind |-> "raise", code |-> 0, gen |-> gen, error |-> last_error]
        /\ UNCHANGED <<attempt, i, current_commands, gen, passed, failed>>
     \/ \E new_commands \in Plans :
          /\ current_commands' = new_commands
          /\ regen_exc' = "none"
          /\ gen' = gen + 1
          /\ IF attempt < MAX_RETRY_ATTEMPTS
             THEN \* next iteration of the attempt loop
                  /\ attempt' = AttemptAfter(attempt)
                  /\ i' = 1
                  /\ passed' = {}
                  /\ failed' = {}
                  /\ pc' = "validate"
                  /\ UNCHANGED result
             ELSE \* the loop is over: return 1, current_commands
                  /\ pc' = "returned"
                  /\ result' = [kind |-> "return", code |-> 1, gen |-> gen + 1, error |-> NoError]
                  /\ UNCHANGED <<attempt, i, passed, failed>>
  /\ sec_check' = NoCheck
  /\ last_proc' = NoProc
  /\ UNCHANGED <<last_error, cmd_num, started, completed, executor_calls, llm_calls>>
  /\ UNCHANGED nonRetryVars

Next ==
  ValidateStep \/ InvokeExecutor \/ GateStep \/ RunStep \/ CallLLMStep \/ RegenerateStep

Spec == Init /\ [][Next]_vars

\* every call made by execute_with_retry returns or raises: a step that can be
\* taken is taken. Next is enabled exactly in the states where the call has
\* not ended, so this is WF_vars(Next) written without ENABLED
SpecLive == Init /\ [][Next]_vars /\ ([]<>(pc \in {"returned", "raised"}) \/ []<><<Next>>_vars)

(* ------------- specification of _is_command_secure alone -------------- *)
SecureInit ==
  /\ sc_pc = "call"
  /\ sc_command \in SecureInputs
  /\ sc_verdict = FALSE
  /\ sc_error = NoError
  /\ NonSecureIdle

CallIsCommandSecure ==
  /\ sc_pc = "call"
  /\ sc_verdict' = IsCommandSecure(sc_command)
  /\ sc_pc' = "done"
  /\ UNCHANGED <<sc_command, sc_error>>
  /\ UNCHANGED nonSecureVars

\* _validate_command_security(cmd) called on its own: the verdict it gets from
\* _is_command_secure and the ExecError it raises on a rejection
CallValidateCommandSecurity ==
  /\ sc_pc = "call"
  /\ sc_verdict' = IsCommandSecure(sc_command)
  /\ sc_error' = IF ValidateCommandSecurity(sc_command) THEN NoError
                 ELSE ExecError("security", sc_command, 0, <<>>, 0)
  /\ sc_pc' = "validated"
  /\ UNCHANGED sc_command
  /\ UNCHANGED nonSecureVars

SecureNext == CallIsCommandSecure \/ CallValidateCommandSecurity

SpecSecure == SecureInit /\ [][SecureNext]_vars

\* the same calls on the commands of the security tests and on argument lists
\* built from WordVocab
WordsInit ==
  /\ sc_pc = "call"
  /\ sc_command \in WordInputs
  /\ sc_verdict = FALSE
  /\ sc_error = NoError
  /\ NonSecureIdle

SpecWords == WordsInit /\ [][SecureNext]_vars

(* ------------------------------- main --------------------------------- *)
\* the except clauses of main() in their order, with the status passed to sys.exit
EXCEPT_CLAUSES_basefirst == <<
  [class |-> "KeyboardInterrupt", code |-> 130],
  [class |-> "MediaLLMError", code |-> 1],
  [class |-> "SecurityError", code |-> 2],
  [class |-> "ValidationError", code |-> 3],
  [class |-> "ConfigError", code |-> 4],
  [class |-> "TranslationError", code |-> 5],
  [class |-> "ConstructionError", code |-> 6],
  [class |-> "ExecError", code |-> 7],
  [class |-> "OSError", code |-> 1],
  [class |-> "Exception", code |-> 1] >>
EXCEPT_CLAUSES == <<
  [class |-> "KeyboardInterrupt", code |-> 130],
  [class |-> "SecurityError", code |-> 2],
  [class |-> "ValidationError", code |-> 3],
  [class |-> "ConfigError", code |-> 4],
  [class |-> "TranslationError", code |-> 5],
  [class |-> "ConstructionError", code |-> 6],
  [class |-> "ExecError", code |-> 7],
  [class |-> "MediaLLMError", code |-> 1],
  [class |-> "OSError", code |-> 1],
  [class |-> "Exception", code |-> 1] >>

\* the status main() ends the process with when exc leaves terminal_app()
ExitCode(exc) ==
  IF exc = "none" THEN 0
  ELSE LET hit == {n \in 1..Len(EXCEPT_CLAUSES) : IsSubclass(exc, EXCEPT_CLAUSES[n].class)}
       IN EXCEPT_CLAUSES[CHOOSE n \in hit : \A m \in hit : n <= m].code

\* the class of the exception object e
ClassOf(e) == IF e.kind = "none" THEN "none" ELSE "ExecError"

\* main() up to the gate of the executor: the application validates a command
MainInit ==
  /\ sc_pc = "call"
  /\ sc_command \in TestCommands \cup CommandPool
  /\ sc_verdict = FALSE
  /\ sc_error = NoError
  /\ MainIdle
  /\ NonMainIdle

\* terminal_app() ends: the error of the gate leaves it unchanged, otherwise
\* it returns or some other exception leaves it
TerminalAppEnds ==
  /\ sc_pc = "validated"
  /\ IF sc_error # NoError
     THEN main_exc' = ClassOf(sc_error)
     ELSE main_exc' \in ExceptionClasses \cup {"none"}
  /\ sc_pc' = "main"
  /\ UNCHANGED <<sc_command, sc_verdict, sc_error, exit_code>>
  /\ UNCHANGED nonMainVars

\* the try statement of main(): the first matching except clause exits
MainHandles ==
  /\ sc_pc = "main"
  /\ exit_code' = ExitCode(main_exc)
  /\ sc_pc' = "exited"
  /\ UNCHANGED <<sc_command, sc_verdict, sc_error, main_exc>>
  /\ UNCHANGED nonMainVars

MainNext == CallValidateCommandSecurity \/ TerminalAppEnds \/ MainHandles

SpecMain == MainInit /\ [][MainNext]_vars

(* ------------------ validate_ffmpeg_command on its own ---------------- *)
ValidateInit ==
  /\ v_pc = "call"
  /\ v_cmd \in ValInputs
  /\ v_fs \in SUBSET ValFiles
  /\ v_dry = NoDry
  /\ v_result = NoValResult
  /\ NonValidateIdle

\* one call of validate_ffmpeg_command(cmd) with the disk as it is now
CallValidateFfmpegCommand ==
  /\ v_pc = "call"
  /\ \E dry \in ValDryOutcomes :
       LET r == ValidateFfmpegCommand(v_cmd, v_fs, dry)
       IN /\ v_result' = r
          /\ v_dry' = IF r.proc # NoCommand THEN dry ELSE NoDry
  /\ v_pc' = "done"
  /\ UNCHANGED <<v_cmd, v_fs>>
  /\ UNCHANGED nonValidateVars

\* between two attempts files appear and disappear; the next attempt
\* validates the same command again
NextAttempt ==
  /\ v_pc = "done"
  /\ v_fs' \in SUBSET ValFiles
  /\ v_pc' = "call"
  /\ v_dry' = NoDry
  /\ v_result' = NoValResult
  /\ UNCHANGED v_cmd
  /\ UNCHANGED nonValidateVars

ValidateNext == CallValidateFfmpegCommand \/ NextAttempt

SpecValidate == ValidateInit /\ [][ValidateNext]_vars

(* --------------------- CommandExecutor.run on its own ----------------- *)
RunInit ==
  /\ r_pc = "call"
  /\ r_args \in [commands : Plans, confirm : BOOLEAN, dry_run : BOOLEAN, show_preview : BOOLEAN]
  /\ r_previewed = FALSE /\ r_said = "nothing"
  /\ r_idx = 0 /\ r_procs = <<>> /\ r_ret = NoReturn
  /\ NonRunIdle

\* CommandExecutor.run up to its return or to the loop of _execute_commands
\* (check_overwrite_protection always answers True)
CallRun ==
  /\ r_pc = "call"
  /\ LET branch == RunBranch(r_args.commands, r_args.confirm, r_args.dry_run)
     IN /\ r_previewed' = (r_args.commands # <<>> /\ r_args.show_preview)
        /\ IF branch = "execute"
           THEN /\ r_pc' = "exec"
                /\ r_idx' = 1
                /\ UNCHANGED <<r_said, r_ret>>
           ELSE /\ r_pc' = "returned"
                /\ r_said' = branch
                /\ r_ret' = [kind |-> "return", code |-> 0, error |-> NoError]
                /\ UNCHANGED r_idx
  /\ UNCHANGED <<r_args, r_procs>>
  /\ UNCHANGED nonRunVars

\* one iteration of the loop of _execute_commands: _execute_single_command
\* on command r_idx, the error of a failed command leaving run
RunExecuteCommand ==
  /\ r_pc = "exec"
  /\ \E found \in BOOLEAN, out \in FullOutcomes :
       LET cmd == r_args.commands[r_idx]
           verdict == ValidateCommand(cmd, found)
           Raise(e) == /\ r_pc' = "raised"
                       /\ r_ret' = [kind |-> "raise", code |-> 0, error |-> e]
                       /\ UNCHANGED r_idx
       IN IF verdict # "ok"
          THEN /\ Raise(ExecError(verdict, cmd, 0, <<>>, 0))
               /\ UNCHANGED r_procs
          ELSE /\ r_procs' = Append(r_procs, cmd)
               /\ IF out.kind = "exit" /\ out.rc = 0
                  THEN IF r_idx < Len(r_args.commands)
                       THEN /\ r_idx' = r_idx + 1
                            /\ UNCHANGED <<r_pc, r_ret>>
                       ELSE /\ r_pc' = "returned"
                            /\ r_ret' = [kind |-> "return", code |-> 0, error |-> NoError]
                            /\ UNCHANGED r_idx
                  ELSE Raise(ExecError(IF out.kind = "timeout" THEN "timeout" ELSE "called",
                                       cmd, out.rc, out.stderr, 0))
  /\ UNCHANGED <<r_args, r_previewed, r_said>>
  /\ UNCHANGED nonRunVars

RunNext == CallRun \/ RunExecuteCommand

SpecRun == RunInit /\ [][RunNext]_vars

(* --------------- repair_json_for_schema, step by step ----------------- *)
\* the closed enumeration of actions
ACTION_NAMES == {
  <<"c","o","n","v","e","r","t">>, <<"c","o","m","p","r","e","s","s">>, <<"e","x","t","r","a","c","t","_","a","u","d","i","o">>, <<"t","r","i","m">>, <<"s","e","g","m","e","n","t">>, <<"t","h","u","m","b","n","a","i","l">>,
  <<"e","x","t","r","a","c","t","_","f","r","a","m","e","s">>, <<"b","u","r","n","_","s","u","b","t","i","t","l","e","s">>, <<"e","x","t","r","a","c","t","_","s","u","b","t","i","t","l","e","s">>, <<"r","e","m","o","v","e","_","a","u","d","i","o">>,
  <<"o","v","e","r","l","a","y">>, <<"f","o","r","m","a","t","_","c","o","n","v","e","r","t">>, <<"m","e","r","g","e">>}

\* infer_action_from_query: the actions it can return for a request; which
\* keyword selects which action is not fixed here, "convert" is the fallback
InferActionFromQuery(user_query) == ACTION_NAMES

\* infer_inputs_from_query: the workspace files whose name the request
\* mentions, otherwise one file of the workspace as the default, otherwise
\* nothing
MentionedFiles(user_query, workspace) ==
  SelectSeq(WorkspaceFiles(workspace),
            LAMBDA f : Contains(LowerStr(user_query), LowerStr(PathName(f))))

InferInputsFromQuery(user_query, workspace) ==
  LET files == WorkspaceFiles(workspace)
      mentioned == MentionedFiles(user_query, workspace)
  IN IF mentioned # <<>> THEN {mentioned}
     ELSE IF files # <<>> THEN {<<files[n]>> : n \in 1..Len(files)}
     ELSE {<<>>}

\* infer_format_and_codec: a format or codec named in the request is set
\* when the field is not set yet
InferFormatAndCodec(repaired, user_query) ==
  [repaired EXCEPT
     !["format"] = IF ~Truthy(Get(repaired, "format")) /\ Contains(user_query, <<"t","o"," ","g","i","f">>)
                   THEN JStr(<<"g","i","f">>) ELSE @,
     !["codec"] = IF ~Truthy(Get(repaired, "codec")) /\ Contains(user_query, <<"h","2","6","5">>)
                  THEN JStr(<<"l","i","b","x","2","6","5">>) ELSE @]

\* fix_action_validation_issues: extract_audio without a target container
\* gets the standard audio container
FixActionValidationIssues(repaired, user_query) ==
  [repaired EXCEPT
     !["format"] = IF /\ Get(repaired, "action") = JStr(<<"e","x","t","r","a","c","t","_","a","u","d","i","o">>)
                      /\ ~Truthy(Get(repaired, "format"))
                   THEN JStr(<<"m","p","3">>) ELSE @]

ListItems == {JStr(<<"a">>), JStr(<<" ">>), JStr(<<>>), JNull, JNum(<<"0">>), JList(<<>>)}
Scalars == {JStr(<<>>), JStr(<<" ">>), JStr(<<"x">>), JNum(<<"0">>), JNum(<<"5">>), JBool(FALSE),
            JBool(TRUE), JDict(<<>>), JDict(<<JStr(<<"x">>)>>)}
\* the shapes in which a list field arrives
ListShapes ==
  {Absent, JNull} \cup Scalars \cup {JList(items) : items \in SeqsUpTo(ListItems, MaxListLen)}
FlagShapes ==
  {Absent, JNull, JStr(<<" ","\t">>), JStr(<<"-","y">>), JList(<<JStr(<<>>), JStr(<<"-","y">>)>>)}
InputShapes ==
  {Absent, JNull, JStr(<<"i","n",".","m","p","4"," ","-"," ","s","o","u","r","c","e">>), JNum(<<"0">>), JList(<<>>),
   JList(<<JStr(<<"i","n",".","m","p","4"," ","(","t","h","e"," ","c","l","i","p",")">>), JNull>>)}
ActionShapes ==
  {Absent, JNull, JStr(<<>>), JNum(<<"0">>), JStr(<<"t","r","i","m">>), JStr(<<"m","e","r","g","e">>), JStr(<<"f","l","y">>),
   JList(<<JStr(<<"t","r","i","m">>)>>)}
OutputShapes == {Absent, JNull, JStr(<<"o","u","t",".","m","p","4"," ","-"," ","r","e","s","u","l","t">>)}
\* a path value with each of the annotations _clean_path_string knows, and without
PathShapes ==
  {Absent, JStr(<<"o","u","t",".","m","p","4"," ","-"," ","r","e","s","u","l","t">>), JStr(<<"o","u","t",".","m","p","3"," ","(","c","o","n","v","e","r","t","e","d"," ","a","u","d","i","o",")">>),
   JStr(<<"o",".","m","k","v"," ","#"," ","n","o","t","e">>), JStr(<<"o",".","m","k","v"," ","/","/"," ","n","o","t","e">>), JStr(<<"o",".","m","k","v"," ",":"," ","n","o","t","e">>), JStr(<<"c","l","e","a","n",".","m","p","4">>)}
AnnotatedInputs ==
  {JStr(<<"i","n",".","m","p","4"," ","-"," ","s","o","u","r","c","e">>), JList(<<JStr(<<"i","n",".","m","p","4"," ","/","/"," ","x">>), JStr(<<"a",".","m","p","3"," ",":"," ","y">>)>>)}

RepairObjects ==
  {[EmptyObject EXCEPT !["action"] = JStr(<<"c","o","n","v","e","r","t">>), !["inputs"] = inputs,
                       !["filters"] = filters, !["extra_flags"] = extra_flags] :
     inputs \in InputShapes, filters \in ListShapes, extra_flags \in FlagShapes}
  \cup
  {[EmptyObject EXCEPT !["action"] = action, !["output"] = output] :
     action \in ActionShapes, output \in OutputShapes}
  \cup
  {[EmptyObject EXCEPT !["action"] = JStr(<<"c","o","n","v","e","r","t">>), !["inputs"] = inputs,
                       !["output"] = output, !["subtitle_path"] = subtitle_path,
                       !["overlay_path"] = overlay_path] :
     inputs \in AnnotatedInputs, output \in PathShapes,
     subtitle_path \in {Absent, JStr(<<"s",".","s","r","t"," ","-"," ","s","u","b","s">>)},
     overlay_path \in {Absent, JStr(<<"l","o","g","o",".","p","n","g"," ","(","l","o","g","o",")">>)}}

RepairData == {NoneData} \cup {ObjectData(obj) : obj \in RepairObjects}
RepairQueries == {<<"c","o","n","v","e","r","t"," ","i","n",".","m","p","4"," ","t","o"," ","g","i","f">>, <<"s","h","r","i","n","k"," ","i","t"," ","w","i","t","h"," ","h","2","6","5">>}
RepairWorkspaces ==
  {NoWorkspace,
   [videos |-> <<<<"/","w","/","i","n",".","m","p","4">>>>, audios |-> <<<<"/","w","/","a",".","m","p","3">>>>, images |-> <<>>,
    subtitle_files |-> <<>>]}

RepairInit ==
  /\ j_pc = "call"
  /\ j_data \in RepairData
  /\ j_query \in RepairQueries
  /\ j_workspace \in RepairWorkspaces
  /\ j_repaired = EmptyObject
  /\ NonRepairIdle

\* `if data is None: data = {}` and `repaired = data.copy()`
CopyData ==
  /\ j_pc = "call"
  /\ j_repaired' = IF j_data.is_none THEN EmptyObject ELSE j_data.obj
  /\ j_pc' = "sanitize"
  /\ UNCHANGED <<j_data, j_query, j_workspace>>
  /\ UNCHANGED nonRepairVars

\* `repaired = JSONRepair.sanitize_path_values(repaired, workspace)`
Sanitize ==
  /\ j_pc = "sanitize"
  /\ j_repaired' = SanitizePathValues(j_repaired, j_workspace)
  /\ j_pc' = "action"
  /\ UNCHANGED <<j_data, j_query, j_workspace>>
  /\ UNCHANGED nonRepairVars

\* "Ensure required 'action' field"
EnsureAction ==
  /\ j_pc = "action"
  /\ IF NeedsAction(j_repaired)
     THEN \E action \in InferActionFromQuery(j_query) :
            j_repaired' = [j_repaired EXCEPT !["action"] = JStr(action)]
     ELSE UNCHANGED j_repaired
  /\ j_pc' = "init_lists"
  /\ UNCHANGED <<j_data, j_query, j_workspace>>
  /\ UNCHANGED nonRepairVars

\* "Ensure list fields are properly initialized"
InitListFields ==
  /\ j_pc = "init_lists"
  /\ j_repaired' = InitLists(j_repaired)
  /\ j_pc' = "clean_lists"
  /\ UNCHANGED <<j_data, j_query, j_workspace>>
  /\ UNCHANGED nonRepairVars

\* "Clean up empty strings in lists"
CleanListFields ==
  /\ j_pc = "clean_lists"
  /\ j_repaired' = CleanLists(j_repaired)
  /\ j_pc' = "infer_inputs"
  /\ UNCHANGED <<j_data, j_query, j_workspace>>
  /\ UNCHANGED nonRepairVars

\* "If inputs is empty, try to infer from user query for most actions"
InferInputs ==
  /\ j_pc = "infer_inputs"
  /\ IF InfersInputs(j_repaired)
     THEN \E inputs \in InferInputsFromQuery(j_query, j_workspace) :
            j_repaired' = [j_repaired EXCEPT
                             !["inputs"] = JList([n \in 1..Len(inputs) |-> JStr(inputs[n])])]
     ELSE UNCHANGED j_repaired
  /\ j_pc' = "infer_format"
  /\ UNCHANGED <<j_data, j_query, j_workspace>>
  /\ UNCHANGED nonRepairVars

\* "Always try to infer format and codec"
InferFormat ==
  /\ j_pc = "infer_format"
  /\ j_repaired' = InferFormatAndCodec(j_repaired, j_query)
  /\ j_pc' = "fix"
  /\ UNCHANGED <<j_data, j_query, j_workspace>>
  /\ UNCHANGED nonRepairVars

\* "Post-validation fixes for action-specific issues" and `return repaired`
FixAndReturn ==
  /\ j_pc = "fix"
  /\ j_repaired' = FixActionValidationIssues(j_repaired, j_query)
  /\ j_pc' = "done"
  /\ UNCHANGED <<j_data, j_query, j_workspace>>
  /\ UNCHANGED nonRepairVars

RepairNext ==
  \/ CopyData
  \/ Sanitize
  \/ EnsureAction
  \/ InitListFields
  \/ CleanListFields
  \/ InferInputs
  \/ InferFormat
  \/ FixAndReturn

SpecRepair == RepairInit /\ [][RepairNext]_vars

(* ----------------------- extract_json_from_text ----------------------- *)
\* the pieces a response is put together from
TextTokens == {FENCE, FENCE \o <<"j","s","o","n">>, <<"{">>, <<"}">>, <<" ">>, <<"x">>, <<"\n">>}
RECURSIVE Concat(_)
Concat(parts) == IF parts = <<>> THEN <<>> ELSE Head(parts) \o Concat(Tail(parts))
\* responses with an upper-case tag, a tag other than json, tabs around
FencedCases == {
  FENCE \o <<"J","S","O","N","\n","{","\"","a","\"",":"," ","1","}","\n">> \o FENCE,
  <<"H","e","r","e",":"," ">> \o FENCE \o <<"J","s","o","n"," ","{","x","}"," ">> \o FENCE \o <<" ","a","n","d"," ","{","y","}">>,
  FENCE \o <<"j","s","\n","{","x","}","\n">> \o FENCE \o <<" ","t","h","e","n"," ","}">>,
  <<"\t","{","x","}","\t">>,
  FENCE \o <<"\n","p","l","a","i","n","\n">> \o FENCE}
ExtractInputs == {Concat(parts) : parts \in SeqsUpTo(TextTokens, MaxTokens)} \cup FencedCases

ExtractInit ==
  /\ x_pc = "call"
  /\ x_text \in ExtractInputs
  /\ x_result = <<>>
  /\ NonExtractIdle

CallExtractJsonFromText ==
  /\ x_pc = "call"
  /\ x_result' = ExtractJsonFromText(x_text)
  /\ x_pc' = "done"
  /\ UNCHANGED x_text
  /\ UNCHANGED nonExtractVars

ExtractNext == CallExtractJsonFromText

SpecExtract == ExtractInit /\ [][ExtractNext]_vars

(* ------------------- MediaLLM.generate_plan, step by step ------------- *)
\* A request is its piece of text chars written repeat times over.
RequestLen(request) == Len(request.chars) * request.repeat
RequestText(request) == IF request.repeat = 0 THEN <<>> ELSE request.chars

MAX_REQUEST_LENGTH == 10000

\* MediaLLM._validate_request: the class it raises, "none" when it returns
ValidateRequest_nolimit(request) ==
  IF RequestText(request) = <<>> \/ Strip(RequestText(request)) = <<>> THEN "ValidationError"
  ELSE "none"
ValidateRequest(request) ==
  IF RequestText(request) = <<>> \/ Strip(RequestText(request)) = <<>> THEN "ValidationError"
  ELSE IF RequestLen(request) > MAX_REQUEST_LENGTH THEN "ValidationError"
  ELSE "none"

\* the except clauses of _initialize_llm in their order, with what they raise
INIT_CLAUSES == <<
  [class |-> "ResponseError", raises |-> "ConfigError"],
  [class |-> "ConnectError", raises |-> "ConfigError"],
  [class |-> "TimeoutException", raises |-> "ConfigError"],
  [class |-> "ImportError", raises |-> "ConfigError"],
  [class |-> "Exception", raises |-> "RuntimeError"] >>

\* the class _initialize_llm raises when an exception of class exc comes up
\* in its try block; when `import ollama` itself failed, ollama_module is
\* unbound and evaluating the first except clause raises UnboundLocalError
InitializeLlmRaises(at, exc) ==
  IF at = "import" THEN "UnboundLocalError"
  ELSE LET hit == {n \in 1..Len(INIT_CLAUSES) : IsSubclass(exc, INIT_CLAUSES[n].class)}
       IN IF hit = {} THEN exc
          ELSE INIT_CLAUSES[CHOOSE n \in hit : \A m \in hit : n <= m].raises

\* the except clauses of generate_plan: the class it raises when an exception
\* of class exc comes up in its try block
GeneratePlanRaises(exc) ==
  IF IsSubclass(exc, "TranslationError") THEN exc
  ELSE IF IsSubclass(exc, "ValidationError") \/ IsSubclass(exc, "ConfigError") THEN exc
  ELSE IF IsSubclass(exc, "Exception") THEN "RuntimeError"
  ELSE exc

\* what the collaborators raise: discover_media, the construction of the
\* provider, parse_query, dispatch_task, construct_operations
SCAN_ERRORS == {"OSError"}
PROVIDER_ERRORS == {"ResponseError", "ConnectError", "TimeoutException", "ImportError", "OSError"}
PARSE_ERRORS == {"TranslationError", "ConfigError"}
DISPATCH_ERRORS == {"ConstructionError"}
BUILD_ERRORS == {"ConstructionError"}

LongRequest == <<"c","o","n","v","e","r","t"," ","i","n",".","m","p","4"," ","t","o"," ","g","i","f"," ">>
ApiRequests == {
  [chars |-> <<>>, repeat |-> 1],
  [chars |-> <<" ">>, repeat |-> 1],
  [chars |-> <<" ","\t","\n">>, repeat |-> 1],
  [chars |-> <<" ">>, repeat |-> MAX_REQUEST_LENGTH + 1],
  [chars |-> <<"x">>, repeat |-> MAX_REQUEST_LENGTH],
  [chars |-> <<"x">>, repeat |-> MAX_REQUEST_LENGTH + 1],
  [chars |-> LongRequest, repeat |-> 1],
  [chars |-> LongRequest, repeat |-> MAX_REQUEST_LENGTH \div Len(LongRequest)],
  [chars |-> LongRequest, repeat |-> MAX_REQUEST_LENGTH \div Len(LongRequest) + 1]}

ApiInit ==
  /\ a_pc = "call"
  /\ a_method \in {"generate_plan", "generate_commands"}
  /\ a_request \in ApiRequests
  /\ a_workspace \in BOOLEAN
  /\ a_llm \in BOOLEAN
  /\ a_scans = 0 /\ a_inits = 0 /\ a_parses = 0
  /\ a_cause = NoCause
  /\ a_exc = "none"
  /\ NonApiIdle

\* `self._validate_request(request)`, before the try statement
ApiValidate ==
  /\ a_pc = "call"
  /\ LET exc == ValidateRequest(a_request)
     IN IF exc # "none"
        THEN /\ a_exc' = exc
             /\ a_cause' = [at |-> "validate", class |-> exc]
             /\ a_pc' = "raised"
        ELSE /\ a_pc' = "workspace"
             /\ UNCHANGED <<a_exc, a_cause>>
  /\ UNCHANGED <<a_method, a_request, a_workspace, a_llm, a_scans, a_inits, a_parses>>
  /\ UNCHANGED nonApiVars

\* `workspace = self._ensure_workspace()`
ApiEnsureWorkspace ==
  /\ a_pc = "workspace"
  /\ IF a_workspace
     THEN /\ a_pc' = "llm"
          /\ UNCHANGED <<a_workspace, a_scans, a_cause, a_exc>>
     ELSE /\ a_scans' = a_scans + 1
          /\ \/ /\ a_workspace' = TRUE
                /\ a_pc' = "llm"
                /\ UNCHANGED <<a_cause, a_exc>>
             \/ \E exc \in SCAN_ERRORS :
                  /\ a_cause' = [at |-> "scan", class |-> exc]
                  /\ a_exc' = GeneratePlanRaises(exc)
                  /\ a_pc' = "raised"
                  /\ UNCHANGED a_workspace
  /\ UNCHANGED <<a_method, a_request, a_llm, a_inits, a_parses>>
  /\ UNCHANGED nonApiVars

\* `self._get_llm()`
ApiGetLlm ==
  /\ a_pc = "llm"
  /\ IF a_llm
     THEN /\ a_pc' = "parse"
          /\ UNCHANGED <<a_llm, a_inits, a_cause, a_exc>>
     ELSE /\ a_inits' = a_inits + 1
          /\ \/ /\ a_llm' = TRUE
                /\ a_pc' = "parse"
                /\ UNCHANGED <<a_cause, a_exc>>
             \/ \E at \in {"import", "provider"} :
                  \E exc \in IF at = "import" THEN {"ImportError"} ELSE PROVIDER_ERRORS :
                    /\ a_cause' = [at |-> at, class |-> exc]
                    /\ a_exc' = GeneratePlanRaises(InitializeLlmRaises(at, exc))
                    /\ a_pc' = "raised"
                    /\ UNCHANGED a_llm
  /\ UNCHANGED <<a_method, a_request, a_workspace, a_scans, a_parses>>
  /\ UNCHANGED nonApiVars

\* `.parse_query(request, workspace, timeout=self._timeout)`
ApiParseQuery ==
  /\ a_pc = "parse"
  /\ a_parses' = a_parses + 1
  /\ \/ /\ a_pc' = "dispatch"
        /\ UNCHANGED <<a_cause, a_exc>>
     \/ \E exc \in PARSE_ERRORS :
          /\ a_cause' = [at |-> "parse", class |-> exc]
          /\ a_exc' = GeneratePlanRaises(exc)
          /\ a_pc' = "raised"
  /\ UNCHANGED <<a_method, a_request, a_workspace, a_llm, a_scans, a_inits>>
  /\ UNCHANGED nonApiVars

\* `return dispatch_task(intent, ...)`
ApiDispatchTask ==
  /\ a_pc = "dispatch"
  /\ \/ /\ a_pc' = IF a_method = "generate_plan" THEN "returned" ELSE "build"
        /\ UNCHANGED <<a_cause, a_exc>>
     \/ \E exc \in DISPATCH_ERRORS :
          /\ a_cause' = [at |-> "dispatch", class |-> exc]
          /\ a_exc' = GeneratePlanRaises(exc)
          /\ a_pc' = "raised"
  /\ UNCHANGED <<a_method, a_request, a_workspace, a_llm, a_scans, a_inits, a_parses>>
  /\ UNCHANGED nonApiVars

\* `return construct_operations(plan, assume_yes=assume_yes)` of generate_commands
ApiConstructOperations ==
  /\ a_pc = "build"
  /\ \/ /\ a_pc' = "returned"
        /\ UNCHANGED <<a_cause, a_exc>>
     \/ \E exc \in BUILD_ERRORS :
          /\ a_cause' = [at |-> "build", class |-> exc]
          /\ a_exc' = exc
          /\ a_pc' = "raised"
  /\ UNCHANGED <<a_method, a_request, a_workspace, a_llm, a_scans, a_inits, a_parses>>
  /\ UNCHANGED nonApiVars

ApiNext ==
  \/ ApiValidate
  \/ ApiEnsureWorkspace
  \/ ApiGetLlm
  \/ ApiParseQuery
  \/ ApiDispatchTask
  \/ ApiConstructOperations

SpecApi == ApiInit /\ [][ApiNext]_vars

(* ----------- CommandExecutor._execute_single_command, step by step ---- *)
\* the bytes of a captured stream: an ASCII byte is written as its character,
\* any other byte by its name
BYTE_C3 == "0xC3"
BYTE_A9 == "0xA9"
BYTE_FF == "0xFF"
NON_ASCII_BYTES == {BYTE_C3, BYTE_A9, BYTE_FF}
\* the character U+00E9, which UTF-8 writes as the bytes C3 A9
E_ACUTE == "U+00E9"

\* s * n
RECURSIVE Times(_, _)
Times(s, n) == IF n = 0 THEN <<>> ELSE s \o Times(s, n - 1)

\* bytes.decode(): strict UTF-8. A byte C3 opens a two-byte character and
\* needs its continuation A9, A9 is only valid as that continuation, FF is
\* valid nowhere; ok is FALSE when it raises UnicodeDecodeError
WellFormedAt(b, n) ==
  CASE b[n] = BYTE_FF -> FALSE
    [] b[n] = BYTE_C3 -> n < Len(b) /\ b[n + 1] = BYTE_A9
    [] b[n] = BYTE_A9 -> n > 1 /\ b[n - 1] = BYTE_C3
    [] OTHER -> TRUE

Decode(b) ==
  LET ok == \A n \in 1..Len(b) : WellFormedAt(b, n)
      leads == [n \in 1..Len(b) |-> IF b[n] = BYTE_C3 THEN E_ACUTE ELSE b[n]]
      IsCharacter(c) == c # BYTE_A9
  IN [ok |-> ok, text |-> IF ok THEN SelectSeq(leads, IsCharacter) ELSE <<>>]

\* `timeout or DEFAULT_SUBPROCESS_TIMEOUT`
EffectiveTimeout(timeout) == IF timeout = 0 THEN DEFAULT_SUBPROCESS_TIMEOUT ELSE timeout

\* the CalledProcessError handler of _execute_single_command: the exception
\* that leaves it, for the captured stderr of a command that exited with rc
HandleCalledProcessError(cmd, rc, stderr) ==
  LET decoded == IF stderr # <<>> THEN Decode(stderr) ELSE [ok |-> TRUE, text |-> <<>>]
  IN IF decoded.ok
     THEN [class |-> "ExecError", msg |-> MsgExecutionFailed(cmd, rc, decoded.text)]
     ELSE [class |-> "UnicodeDecodeError", msg |-> <<>>]

\* captured stderr streams: none, short, longer than the excerpt, with a
\* two-byte UTF-8 character, with a byte that is not UTF-8
StderrLong == Times(<<"f","r","a","m","e"," ","d","r","o","p","p","e","d","\n">>, 40)
StderrUtf8 == <<"c","a","f">> \o <<BYTE_C3, BYTE_A9>> \o <<".","m","p","4",":"," ","I","n","v","a","l","i","d"," ","d","a","t","a","\n">>
StderrLatin1 == <<"c","a","f">> \o <<BYTE_FF>> \o <<".","m","p","4",":"," ","N","o"," ","s","u","c","h"," ","f","i","l","e","\n">>
StderrLongLatin1 == StderrLong \o StderrLatin1
StderrStreams == {<<>>, StderrUnknownEncoder, StderrLong, StderrUtf8, StderrLatin1,
                  StderrLongLatin1}

ProcOSError == [kind |-> "oserror", rc |-> 0, stderr |-> <<>>]

\* subprocess.run(cmd, check=True, timeout=..., capture_output=True): exit 0,
\* CalledProcessError, TimeoutExpired, or the OSError of a child that could
\* not be started
SingleOutcomes ==
  {ProcExit(0, <<>>), ProcTimeout, ProcOSError}
    \cup {ProcExit(rc, e) : rc \in {1, 255}, e \in StderrStreams}

SingleTimeouts == {0, 5}

SingleInit ==
  /\ s_pc = "call"
  /\ s_cmd \in CommandPool \cup {<<>>}
  /\ s_timeout \in SingleTimeouts
  /\ s_found \in BOOLEAN
  /\ s_proc = NoRun
  /\ s_exc = NoRaise
  /\ NonSingleIdle

\* self._validate_command(cmd)
SingleValidate ==
  /\ s_pc = "call"
  /\ LET verdict == ValidateCommand(s_cmd, s_found)
     IN IF verdict = "ok"
        THEN s_pc' = "run" /\ UNCHANGED s_exc
        ELSE /\ s_pc' = "raised"
             /\ s_exc' = [class |-> "ExecError",
                          msg |-> ErrorText(ExecError(verdict, s_cmd, 0, <<>>, 0))]
  /\ UNCHANGED <<s_cmd, s_timeout, s_found, s_proc>>
  /\ UNCHANGED nonSingleVars

\* the try block: subprocess.run and the TimeoutExpired handler
SingleRun ==
  /\ s_pc = "run"
  /\ \E out \in SingleOutcomes :
       /\ s_proc' = out
       /\ CASE out.kind = "exit" /\ out.rc = 0 -> s_pc' = "returned" /\ UNCHANGED s_exc
            [] out.kind = "exit" /\ out.rc # 0 -> s_pc' = "called" /\ UNCHANGED s_exc
            [] out.kind = "timeout" ->
                 /\ s_pc' = "raised"
                 /\ s_exc' = [class |-> "ExecError",
                              msg |-> MsgTimeout(EffectiveTimeout(s_timeout))]
            [] out.kind = "oserror" ->
                 /\ s_pc' = "raised"
                 /\ s_exc' = [class |-> "OSError", msg |-> <<>>]
  /\ UNCHANGED <<s_cmd, s_timeout, s_found>>
  /\ UNCHANGED nonSingleVars

\* the CalledProcessError handler
SingleHandleCalledProcessError ==
  /\ s_pc = "called"
  /\ s_pc' = "raised"
  /\ s_exc' = HandleCalledProcessError(s_cmd, s_proc.rc, s_proc.stderr)
  /\ UNCHANGED <<s_cmd, s_timeout, s_found, s_proc>>
  /\ UNCHANGED nonSingleVars

SingleNext ==
  \/ SingleValidate
  \/ SingleRun
  \/ SingleHandleCalledProcessError

SpecSingle == SingleInit /\ [][SingleNext]_vars

(* ---------------------- _ffprobe_duration, step by step --------------- *)
DEFAULT_FFPROBE_TIMEOUT == 60
MAX_FFPROBE_OUTPUT_SIZE == 1048576

\* the exception classes that come up in _ffprobe_duration, with their bases
BUILTIN_BASE_CLASS ==
  [c \in {"TimeoutExpired", "CalledProcessError", "SubprocessError", "JSONDecodeError",
          "UnicodeDecodeError", "ValueError", "PermissionError", "OSError",
          "AttributeError", "TypeError", "Exception"} |->
     CASE c \in {"TimeoutExpired", "CalledProcessError"} -> "SubprocessError"
       [] c \in {"JSONDecodeError", "UnicodeDecodeError"} -> "ValueError"
       [] c = "PermissionError" -> "OSError"
       [] c = "Exception" -> "BaseException"
       [] OTHER -> "Exception"]

RECURSIVE IsBuiltinSubclass(_, _)
IsBuiltinSubclass(c, h) ==
  IF c = h THEN TRUE
  ELSE IF c \notin DOMAIN BUILTIN_BASE_CLASS THEN FALSE
  ELSE IsBuiltinSubclass(BUILTIN_BASE_CLASS[c], h)

\* the except clauses of _ffprobe_duration; each of them returns None
PROBE_CLAUSES == <<"TimeoutExpired", "JSONDecodeError", "CalledProcessError", "OSError">>
ProbeCatches(exc) == \E n \in 1..Len(PROBE_CLAUSES) : IsBuiltinSubclass(exc, PROBE_CLAUSES[n])

\* a JSON value as far as _ffprobe_duration looks into it: its type, its
\* member "format", the member "duration" of that, and the text of a string
Scalar(t, s) == [t |-> t, s |-> s]
AbsentMember == Scalar("absent", <<>>)
Member(t, duration) == [t |-> t, duration |-> duration]
Value(t, format) == [t |-> t, format |-> format]
NotADict(t) == Value(t, Member("absent", AbsentMember))
WithDuration(duration) == Value("dict", Member("dict", duration))

\* what ffprobe -of json prints to stdout, and other texts a process can print
OutDuration == <<"{","\"","f","o","r","m","a","t","\"",":"," ","{","\"","d","u","r","a","t","i","o","n","\"",":"," ","\"","1","2",".","5","0","0","0","0","0","\"","}","}">>
OutNoDuration == <<"{","\"","f","o","r","m","a","t","\"",":"," ","{","}","}">>
OutEmptyObject == <<"{","}">>
OutNotAvailable == <<"{","\"","f","o","r","m","a","t","\"",":"," ","{","\"","d","u","r","a","t","i","o","n","\"",":"," ","\"","N","/","A","\"","}","}">>
OutNullDuration == <<"{","\"","f","o","r","m","a","t","\"",":"," ","{","\"","d","u","r","a","t","i","o","n","\"",":"," ","n","u","l","l","}","}">>
OutNumber == <<"{","\"","f","o","r","m","a","t","\"",":"," ","{","\"","d","u","r","a","t","i","o","n","\"",":"," ","1","2",".","5","}","}">>
OutPadded == <<"{","\"","f","o","r","m","a","t","\"",":"," ","{","\"","d","u","r","a","t","i","o","n","\"",":"," ","\""," ","7"," ","\"","}","}">>
OutNan == <<"{","\"","f","o","r","m","a","t","\"",":"," ","{","\"","d","u","r","a","t","i","o","n","\"",":"," ","\"","n","a","n","\"","}","}">>
OutTwoDots == <<"{","\"","f","o","r","m","a","t","\"",":"," ","{","\"","d","u","r","a","t","i","o","n","\"",":"," ","\"","1",".","2",".","3","\"","}","}">>
OutEmptyString == <<"{","\"","f","o","r","m","a","t","\"",":"," ","{","\"","d","u","r","a","t","i","o","n","\"",":"," ","\"","\"","}","}">>
OutListDuration == <<"{","\"","f","o","r","m","a","t","\"",":"," ","{","\"","d","u","r","a","t","i","o","n","\"",":"," ","[","1","]","}","}">>
OutNullFormat == <<"{","\"","f","o","r","m","a","t","\"",":"," ","n","u","l","l","}">>
OutList == <<"[","]">>
OutNull == <<"n","u","l","l">>
OutCut == <<"{","\"","f","o","r","m","a","t","\"",":">>
OutNothing == <<>>

\* json.loads on the texts above: ok is FALSE when it raises JSONDecodeError
JsonLoads(text) ==
  CASE text = OutDuration -> [ok |-> TRUE, data |-> WithDuration(Scalar("str", <<"1","2",".","5","0","0","0","0","0">>))]
    [] text = OutNoDuration -> [ok |-> TRUE, data |-> WithDuration(AbsentMember)]
    [] text = OutEmptyObject -> [ok |-> TRUE, data |-> Value("dict", Member("absent", AbsentMember))]
    [] text = OutNotAvailable -> [ok |-> TRUE, data |-> WithDuration(Scalar("str", <<"N","/","A">>))]
    [] text = OutNullDuration -> [ok |-> TRUE, data |-> WithDuration(Scalar("null", <<>>))]
    [] text = OutNumber -> [ok |-> TRUE, data |-> WithDuration(Scalar("number", <<"1","2",".","5">>))]
    [] text = OutPadded -> [ok |-> TRUE, data |-> WithDuration(Scalar("str", <<" ","7"," ">>))]
    [] text = OutNan -> [ok |-> TRUE, data |-> WithDuration(Scalar("str", <<"n","a","n">>))]
    [] text = OutTwoDots -> [ok |-> TRUE, data |-> WithDuration(Scalar("str", <<"1",".","2",".","3">>))]
    [] text = OutEmptyString -> [ok |-> TRUE, data |-> WithDuration(Scalar("str", <<>>))]
    [] text = OutListDuration -> [ok |-> TRUE, data |-> WithDuration(Scalar("list", <<>>))]
    [] text = OutNullFormat -> [ok |-> TRUE, data |-> Value("dict", Member("null", AbsentMember))]
    [] text = OutList -> [ok |-> TRUE, data |-> NotADict("list")]
    [] text = OutNull -> [ok |-> TRUE, data |-> NotADict("null")]
    [] OTHER -> [ok |-> FALSE, data |-> NotADict("absent")]

\* float(s) of a string accepts, around optional blanks and one sign, a
\* decimal numeral with at least one digit and at most one point, or the
\* words inf, infinity and nan in any case (exponents and digit separators
\* are not in the texts of this model)
IsFloatText(s) ==
  LET t == Strip(s)
      u == IF t # <<>> /\ t[1] \in {"+", "-"} THEN SubSeq(t, 2, Len(t)) ELSE t
  IN \/ LowerStr(u) \in {<<"i","n","f">>, <<"i","n","f","i","n","i","t","y">>, <<"n","a","n">>}
     \/ /\ \E n \in 1..Len(u) : u[n] \in Digits
        /\ \A n \in 1..Len(u) : u[n] \in Digits \cup {"."}
        /\ Cardinality({n \in 1..Len(u) : u[n] = "."}) <= 1

\* float(dur): the number, or the class of the exception it raises
Float(dur) ==
  CASE dur.t = "number" -> [kind |-> "float", value |-> dur.s]
    [] dur.t = "str" -> IF IsFloatText(dur.s) THEN [kind |-> "float", value |-> Strip(dur.s)]
                        ELSE [kind |-> "raise", value |-> "ValueError"]
    [] OTHER -> [kind |-> "raise", value |-> "TypeError"]

ReturnsNone == [kind |-> "None", value |-> <<>>]
Raises(class) == [kind |-> "raise", value |-> class]

\* lines 64-66: json.loads, the two .get and float
DurationOf(text) ==
  LET loaded == JsonLoads(text)
      data == loaded.data
      format == IF data.format.t = "absent" THEN Member("dict", AbsentMember) ELSE data.format
      dur == format.duration
  IN IF ~loaded.ok THEN Raises("JSONDecodeError")
     ELSE IF data.t # "dict" THEN Raises("AttributeError")
     ELSE IF format.t # "dict" THEN Raises("AttributeError")
     ELSE IF dur.t \in {"absent", "null"} THEN ReturnsNone
     ELSE Float(dur)

\* what leaves the function when exc comes up in its try block
ProbeHandles(ret) ==
  IF ret.kind = "raise" /\ ProbeCatches(ret.value) THEN ReturnsNone ELSE ret

\* `timeout or DEFAULT_FFPROBE_TIMEOUT`
ProbeTimeout(timeout) == IF timeout = 0 THEN DEFAULT_FFPROBE_TIMEOUT ELSE timeout

ProbeTexts == {OutDuration, OutNoDuration, OutEmptyObject, OutNotAvailable, OutNullDuration,
               OutNumber, OutPadded, OutNan, OutTwoDots, OutEmptyString, OutListDuration,
               OutNullFormat, OutList, OutNull, OutCut, OutNothing}

\* subprocess.run(..., capture_output=True, check=True, text=True): the exit
\* status with the text of stdout, followed by pad newlines, and the bytes of
\* stderr; TimeoutExpired; OSError. timeout is the argument it was called with
ProbeExit(rc, text, pad, stderr) ==
  [kind |-> "exit", rc |-> rc, text |-> text, pad |-> pad, stderr |-> stderr, timeout |-> 0]
ProbeTimedOut == [NoProbe EXCEPT !.kind = "timeout"]
ProbeOSError == [NoProbe EXCEPT !.kind = "oserror"]

ProbeOutcomes ==
  {ProbeTimedOut, ProbeOSError}
    \cup {ProbeExit(0, t, pad, <<>>) : t \in ProbeTexts, pad \in {0, 1, MAX_FFPROBE_OUTPUT_SIZE}}
    \cup {ProbeExit(1, <<>>, 0, e) : e \in {<<>>, StderrUtf8, StderrLatin1}}
    \cup {ProbeExit(0, OutNoDuration, 1, StderrLatin1)}

ProbeInit ==
  /\ p_pc = "call"
  /\ p_found \in BOOLEAN
  /\ p_timeout \in {0, 5}
  /\ p_proc = NoProbe
  /\ p_ret = NoDuration
  /\ NonProbeIdle

\* lines 33-38: shutil.which("ffprobe")
ProbeWhich ==
  /\ p_pc = "call"
  /\ IF p_found THEN p_pc' = "run" /\ UNCHANGED p_ret
     ELSE p_pc' = "returned" /\ p_ret' = ReturnsNone
  /\ UNCHANGED <<p_found, p_timeout, p_proc>>
  /\ UNCHANGED nonProbeVars

\* subprocess.run in the try block: with text=True both streams are decoded
\* before the exit status is looked at
ProbeRun ==
  /\ p_pc = "run"
  /\ \E out \in ProbeOutcomes :
       /\ p_proc' = [out EXCEPT !.timeout = ProbeTimeout(p_timeout)]
       /\ LET raised == IF out.kind = "timeout" THEN Raises("TimeoutExpired")
                        ELSE IF out.kind = "oserror" THEN Raises("OSError")
                        ELSE IF ~Decode(out.stderr).ok THEN Raises("UnicodeDecodeError")
                        ELSE IF out.rc # 0 THEN Raises("CalledProcessError")
                        ELSE NoDuration
          IN IF raised = NoDuration
             THEN p_pc' = "parse" /\ UNCHANGED p_ret
             ELSE /\ p_ret' = ProbeHandles(raised)
                  /\ p_pc' = IF p_ret'.kind = "raise" THEN "raised" ELSE "returned"
  /\ UNCHANGED <<p_found, p_timeout>>
  /\ UNCHANGED nonProbeVars

\* lines 59-66: the size limit, json.loads, the two .get and float
ProbeParse ==
  /\ p_pc = "parse"
  /\ p_ret' = IF Len(p_proc.text) + p_proc.pad > MAX_FFPROBE_OUTPUT_SIZE THEN ReturnsNone
              ELSE ProbeHandles(DurationOf(p_proc.text))
  /\ p_pc' = IF p_ret'.kind = "raise" THEN "raised" ELSE "returned"
  /\ UNCHANGED <<p_found, p_timeout, p_proc>>
  /\ UNCHANGED nonProbeVars

ProbeNext ==
  \/ ProbeWhich
  \/ ProbeRun
  \/ ProbeParse

SpecProbe == ProbeInit /\ [][ProbeNext]_vars

(* ------------------- MediaLLM: the workspace cache -------------------- *)
\* what discover_media finds in a directory at the time of a scan
SnapshotOf(videos) == WorkspaceDict({"videos", "audios", "images", "subtitle_files"},
                                    videos, <<<<"/","w","/","a",".","m","p","3">>>>, <<>>, <<>>)
DiskSnapshots == {SnapshotOf(<<>>), SnapshotOf(<<<<"/","w","/","i","n",".","m","p","4">>>>),
                  SnapshotOf(<<<<"/","w","/","i","n",".","m","p","4">>, <<"/","w","/","n","e","w",".","m","p","4">>>>)}
\* what a caller passes to the constructor: a snapshot, {} or a dict with one key
GivenWorkspaces ==
  DiskSnapshots \cup {WorkspaceDict({}, <<>>, <<>>, <<>>, <<>>),
                      WorkspaceDict({"videos"}, <<<<"/","w","/","i","n",".","m","p","4">>>>, <<>>, <<>>, <<>>)}

\* workspace.get(key, [])
WorkspaceGet(workspace, key) == IF key \in workspace.keys THEN workspace[key] ELSE <<>>

\* the dict available_files builds from the snapshot
AvailableFilesOf(workspace) ==
  [videos |-> WorkspaceGet(workspace, "videos"), audios |-> WorkspaceGet(workspace, "audios"),
   images |-> WorkspaceGet(workspace, "images"),
   subtitles |-> WorkspaceGet(workspace, "subtitle_files")]

\* `if self._workspace is None:` of _ensure_workspace
NeedsScan_always(workspace) == TRUE
NeedsScan(workspace) == workspace.none

Returned(method, workspace) ==
  [method |-> method, kind |-> "return", exc |-> "none", ws |-> workspace,
   files |-> IF method = "available_files" THEN AvailableFilesOf(workspace) ELSE NoFiles]
Raised(method, exc, workspace) ==
  [method |-> method, kind |-> "raise", exc |-> exc, ws |-> workspace, files |-> NoFiles]

\* MediaLLM(workspace=...): no call made yet
CacheInit ==
  /\ w_workspace \in GivenWorkspaces \cup {NoneWorkspace}
  /\ w_given = ~w_workspace.none
  /\ w_lazy = 0 /\ w_explicit = 0 /\ w_calls = 0
  /\ w_ret = NoCall
  /\ NonCacheIdle

\* _ensure_workspace inside the call of method: the cached snapshot, a scan
\* that is cached, or a scan that raises; wrap gives the class the method
\* raises for the exception of the scan
EnsureWorkspaceIn(method, wrap(_), Finish(_)) ==
  IF NeedsScan(w_workspace)
  THEN \/ \E scanned \in DiskSnapshots :
            /\ w_workspace' = scanned
            /\ w_lazy' = w_lazy + 1
            /\ Finish(scanned)
       \/ \E exc \in SCAN_ERRORS :
            /\ w_ret' = Raised(method, wrap(exc), NoneWorkspace)
            /\ UNCHANGED <<w_workspace, w_lazy>>
  ELSE /\ Finish(w_workspace)
       /\ UNCHANGED <<w_workspace, w_lazy>>

\* the property workspace
CacheWorkspace ==
  /\ w_calls < MaxCalls
  /\ w_calls' = w_calls + 1
  /\ LET Same(exc) == exc
         Finish(workspace) == w_ret' = Returned("workspace", workspace)
     IN EnsureWorkspaceIn("workspace", Same, Finish)
  /\ UNCHANGED <<w_given, w_explicit>>
  /\ UNCHANGED nonCacheVars

\* get_workspace()
CacheGetWorkspace ==
  /\ w_calls < MaxCalls
  /\ w_calls' = w_calls + 1
  /\ w_ret' = IF w_workspace.none THEN Raised("get_workspace", "RuntimeError", NoneWorkspace)
              ELSE Returned("get_workspace", w_workspace)
  /\ UNCHANGED <<w_workspace, w_given, w_lazy, w_explicit>>
  /\ UNCHANGED nonCacheVars

\* scan_workspace(directory): the directory given or, for None and "", the
\* working directory; the scan replaces the cached snapshot
CacheScanWorkspace ==
  /\ w_calls < MaxCalls
  /\ w_calls' = w_calls + 1
  /\ w_explicit' = w_explicit + 1
  /\ \/ \E scanned \in DiskSnapshots :
          /\ w_workspace' = scanned
          /\ w_ret' = Returned("scan_workspace", scanned)
     \/ \E exc \in SCAN_ERRORS :
          /\ w_ret' = Raised("scan_workspace", exc, NoneWorkspace)
          /\ UNCHANGED w_workspace
  /\ UNCHANGED <<w_given, w_lazy>>
  /\ UNCHANGED nonCacheVars

\* the property available_files
CacheAvailableFiles ==
  /\ w_calls < MaxCalls
  /\ w_calls' = w_calls + 1
  /\ LET Same(exc) == exc
         Finish(workspace) == w_ret' = Returned("available_files", workspace)
     IN EnsureWorkspaceIn("available_files", Same, Finish)
  /\ UNCHANGED <<w_given, w_explicit>>
  /\ UNCHANGED nonCacheVars

\* generate_plan(request): _validate_request, _ensure_workspace, then the
\* client and the compiler, which get the snapshot and return or raise
CacheGeneratePlan ==
  /\ w_calls < MaxCalls
  /\ w_calls' = w_calls + 1
  /\ \E request \in ApiRequests :
       IF ValidateRequest(request) # "none"
       THEN /\ w_ret' = Raised("generate_plan", ValidateRequest(request), NoneWorkspace)
            /\ UNCHANGED <<w_workspace, w_lazy>>
       ELSE LET Finish(workspace) ==
                  \/ w_ret' = Returned("generate_plan", workspace)
                  \/ \E exc \in PARSE_ERRORS \cup DISPATCH_ERRORS :
                       w_ret' = Raised("generate_plan", GeneratePlanRaises(exc), workspace)
            IN EnsureWorkspaceIn("generate_plan", GeneratePlanRaises, Finish)
  /\ UNCHANGED <<w_given, w_explicit>>
  /\ UNCHANGED nonCacheVars

CacheNext ==
  \/ CacheWorkspace
  \/ CacheGetWorkspace
  \/ CacheScanWorkspace
  \/ CacheAvailableFiles
  \/ CacheGeneratePlan

SpecCache == CacheInit /\ [][CacheNext]_vars

(* ------- one session: generate_plan, then _regenerate_commands -------- *)
\* pathlib.Path(text) of a POSIX path that does not start with "//": the
\* components between slashes, the empty ones and "." dropped
PathOf(text) ==
  LET breaks == {n \in 1..Len(text) : text[n] = "/"}
      count == Cardinality(breaks)
      Break(k) == CHOOSE n \in breaks : Cardinality({m \in breaks : m < n}) = k - 1
      pieces == [k \in 1..(count + 1) |->
                   SubSeq(text, IF k = 1 THEN 1 ELSE Break(k - 1) + 1,
                                IF k = count + 1 THEN Len(text) ELSE Break(k) - 1)]
  IN [root |-> text # <<>> /\ text[1] = "/",
      parts |-> SelectSeq(pieces, LAMBDA piece : piece # <<>> /\ piece # <<".">>)]

WorkingDirs == {<<"/","w">>, <<"/","w","/","m","e","d","i","a">>}
\* the output_dir argument of generate_plan: None, or a string
OutputDirs == {<<"None">>, <<>>, <<"o","u","t">>, <<"o","u","t","/">>, <<"/","s","r","v","/","o","u","t">>}

\* generate_plan: `dispatch_task(intent, allowed_dirs=[self._working_dir],
\* output_dir=Path(output_dir) if output_dir else None)`
PlanCompile(working_dir, output_dir) ==
  [allowed_dirs |-> Passed(<<PathOf(working_dir)>>),
   output_dir |-> IF output_dir # <<"None">> /\ output_dir # <<>>
                  THEN Passed(PathOf(output_dir)) ELSE NoneValue]

\* _regenerate_commands: `dispatch_task(intent, output_dir=None)`
RegenCompile(original) == [allowed_dirs |-> NotPassed, output_dir |-> NoneValue]

\* the errors a regeneration is asked to repair
RegenErrors == {StderrUnknownEncoder, StderrBracketed, MSG_EMPTY_COMMAND}

RegenInit ==
  /\ g_pc = "plan" /\ g_original = NoCompile /\ g_prompt = <<>> /\ g_compiles = <<>>
  /\ g_regens = 0 /\ g_ret = "none"
  /\ NonRegenIdle

\* the plan the session starts from, compiled by generate_plan
RegenGeneratePlan ==
  /\ g_pc = "plan"
  /\ \E working_dir \in WorkingDirs, output_dir \in OutputDirs :
       g_original' = PlanCompile(working_dir, output_dir)
  /\ g_pc' = "ready"
  /\ UNCHANGED <<g_prompt, g_compiles, g_regens, g_ret>>
  /\ UNCHANGED nonRegenVars

\* execute_with_retry calls _regenerate_commands after a failed attempt that
\* is not the last; `enhanced_prompt = self._build_retry_prompt(...)`
RegenCall ==
  /\ g_pc = "ready"
  /\ g_regens + 1 < MAX_RETRY_ATTEMPTS
  /\ \E error_message \in RegenErrors :
       g_prompt' = BuildRetryPrompt(ORIGINAL_PROMPT, error_message)
  /\ g_regens' = g_regens + 1
  /\ g_pc' = "parse"
  /\ UNCHANGED <<g_original, g_compiles, g_ret>>
  /\ UNCHANGED nonRegenVars

\* `intent = self._llm.parse_query(enhanced_prompt, workspace, timeout=timeout)`
RegenParseQuery ==
  /\ g_pc = "parse"
  /\ \/ g_pc' = "dispatch" /\ UNCHANGED g_ret
     \/ \E exc \in PARSE_ERRORS : g_pc' = "ended" /\ g_ret' = "None"
  /\ UNCHANGED <<g_original, g_prompt, g_compiles, g_regens>>
  /\ UNCHANGED nonRegenVars

\* `new_plan = dispatch_task(intent, output_dir=None)`
RegenDispatchTask ==
  /\ g_pc = "dispatch"
  /\ g_compiles' = Append(g_compiles, RegenCompile(g_original))
  /\ \/ g_pc' = "build" /\ UNCHANGED g_ret
     \/ \E exc \in DISPATCH_ERRORS : g_pc' = "ended" /\ g_ret' = "None"
  /\ UNCHANGED <<g_original, g_prompt, g_regens>>
  /\ UNCHANGED nonRegenVars

\* `new_commands = construct_operations(new_plan, assume_yes=assume_yes)`,
\* then `return new_commands, new_plan`
RegenConstructOperations ==
  /\ g_pc = "build"
  /\ \/ g_pc' = "ready" /\ g_ret' = "commands"
     \/ \E exc \in BUILD_ERRORS : g_pc' = "ended" /\ g_ret' = "None"
  /\ UNCHANGED <<g_original, g_prompt, g_compiles, g_regens>>
  /\ UNCHANGED nonRegenVars

RegenNext ==
  \/ RegenGeneratePlan
  \/ RegenCall
  \/ RegenParseQuery
  \/ RegenDispatchTask
  \/ RegenConstructOperations

SpecRegen == RegenInit /\ [][RegenNext]_vars

(* ------------------------- _clean_path_string ------------------------- *)
FileMyClip == <<"/","w","/","m","y","_","c","l","i","p",".","m","p","4">>
FileClip == <<"/","w","/","c","l","i","p",".","m","p","4">>
FileSong == <<"/","w","/","S","o","n","g",".","M","P","3">>

CleanWorkspaces ==
  {[videos |-> videos, audios |-> audios, images |-> <<>>, subtitle_files |-> <<>>] :
     videos \in {<<>>, <<FileClip>>, <<FileMyClip>>, <<FileClip, FileMyClip>>,
                 <<FileMyClip, FileClip>>},
     audios \in {<<>>, <<FileSong>>}}

\* path values: names of workspace files in either case, with and without an
\* annotation, names of no workspace file, values that clean to nothing
CleanPaths ==
  {<<>>, <<" ">>, <<"(","t","h","e"," ","f","i","r","s","t"," ","c","l","i","p",")">>, <<"c","l","i","p",".","m","p","4">>, <<"C","L","I","P",".","M","P","4">>, <<"c","l","i","p",".","m","p","4"," ","-"," ","t","h","e"," ","c","l","i","p">>,
   <<"m","y","_","c","l","i","p",".","m","p","4">>, <<"s","o","n","g",".","m","p","3">>, <<"o","t","h","e","r",".","m","p","4">>, <<"o","t","h","e","r",".","m","p","4"," ","(","n","e","w",")">>, <<"t","h","e"," ","v","i","d","e","o">>,
   <<"/","w","/","c","l","i","p",".","m","p","4">>, <<"l","i","p",".","m","p","4">>}

CleanInit ==
  /\ k_pc = "call"
  /\ k_path_str \in CleanPaths
  /\ k_workspace \in CleanWorkspaces
  /\ k_ret = <<>>
  /\ NonCleanIdle

CallCleanPathString ==
  /\ k_pc = "call"
  /\ k_ret' = CleanPathString(k_path_str, k_workspace)
  /\ k_pc' = "done"
  /\ UNCHANGED <<k_path_str, k_workspace>>
  /\ UNCHANGED nonCleanVars

CleanNext == CallCleanPathString

SpecClean == CleanInit /\ [][CleanNext]_vars

(* ============================ properties ============================== *)
Ended == pc \in {"returned", "raised"}
Succeeded == pc = "returned" /\ result.kind = "return" /\ result.code = 0
\* <<1, ..., n>>
Upto(n) == [k \in 1..n |-> k]

\* C1: no subprocess, neither the dry check of Validate nor the full run of
\* Execute, is started from a command that is_command_secure rejects.
C1_NoSubprocessFromInsecureCommand ==
  last_proc.phase # "none" => IsCommandSecure(last_proc.cmd)

\* C2: in every attempt, the last included, the executor is invoked only when
\* every command of the current plan passed validate_ffmpeg_command in that attempt.
C2_ExecutorOnlyAfterAllValid ==
  [][executor_calls' # executor_calls => passed = 1..Len(current_commands)]_vars

\* C3: at most 3 attempts: at most 3 executor calls and 2 LLM calls, at most one
\* executor call and one LLM call per attempt, and the attempt counter never
\* decreases and grows by exactly one at a time.
C3_AttemptBound ==
  [][/\ attempt' \in {attempt, attempt + 1}
     /\ attempt' \in 1..3
     /\ executor_calls' <= 3 /\ executor_calls' <= attempt'
     /\ llm_calls' <= 2 /\ llm_calls' <= attempt']_vars

C3_Witness ==
  pc = "raised" /\ attempt = 3 /\ executor_calls = 3 /\ llm_calls = 2

\* C4: when the bound is exhausted the last failure propagates: an ExecError of
\* attempt 3 is the error raised, and a validation failure in attempt 3 ends the
\* run in failure without the plan being executed.
C4_LastFailurePropagates ==
  /\ (pc = "raised" /\ attempt = 3) =>
        (result.kind = "raise" /\ result.error = last_error /\ result.error.attempt = 3)
  /\ (attempt = 3 /\ failed # {}) => (pc \notin {"gate", "run"} /\ ~Succeeded)

UnknownEncoder == <<"U","n","k","n","o","w","n"," ","e","n","c","o","d","e","r">>
FailedWithUnknownEncoder(e) == e.kind = "called" /\ Contains(e.stderr, UnknownEncoder)
CarriesExcerpt(e) ==
  e.kind = "called" => Contains(ErrorText(e), Slice(e.stderr, 0, 500))

C8_SecureCheckBeforeEveryRun ==
  /\ pc = "run" =>
       sec_check = [argv |-> current_commands[cmd_num], ok |-> TRUE,
                    attempt |-> attempt, cmd_num |-> cmd_num]
  /\ last_proc.phase = "full" => IsCommandSecure(last_proc.argv)

C8_Witness ==
  /\ pc = "run" /\ attempt = 2 /\ cmd_num = 2
  /\ current_commands[1] # current_commands[2] /\ sec_check.ok

\* the token is some prefix followed by exe
HasSuffix(tok, exe) == \E n \in 0..Len(tok) : tok = SubSeq(tok, 1, n) \o exe

\* C9: is_command_secure returns false for the empty list and for every list
\* whose first token does not end with ffmpeg or ffprobe.
C9_RejectsOtherExecutables ==
  (sc_pc = "done"
     /\ (sc_command = <<>>
           \/ ~(HasSuffix(sc_command[1], <<"f","f","m","p","e","g">>) \/ HasSuffix(sc_command[1], <<"f","f","p","r","o","b","e">>))))
    => sc_verdict = FALSE

C9_Witness ==
  /\ sc_pc = "done" /\ Len(sc_command) = 3 /\ sc_command[1] = <<"f","f","m","p","e","g",".","s","h">>
  /\ sc_command[2] = <<"-","i">> /\ sc_command[3] = <<"i","n",".","m","p","4">> /\ sc_verdict = FALSE

\* number of filter flags standing directly before position j
FlagRunBefore(command, j) ==
  Cardinality({m \in 1..(j - 1) : \A q \in m..(j - 1) : command[q] \in FILTER_FLAGS})

\* position j belongs to a filter-flag/value pair, pairs being formed left to right
InFilterPair(command, j) ==
  \/ FlagRunBefore(command, j) % 2 = 1
  \/ command[j] \in FILTER_FLAGS /\ j < Len(command)

HasInjectionChars(arg) ==
  \/ \E c \in {";", "&", "|", Backquote} : c \in Range(arg)
  \/ \E p \in {<<"$","(">>, <<"$","{">>, <<">","/">>, <<">","\\">>} : Contains(arg, p)

\* C10: is_command_secure returns false when some argument outside a
\* filter-flag/value pair contains ; & | ` $( ${ or > followed by / or \.
C10_RejectsInjectionOutsideFilters ==
  (sc_pc = "done"
     /\ \E j \in 1..Len(sc_command) :
          ~InFilterPair(sc_command, j) /\ HasInjectionChars(sc_command[j]))
    => sc_verdict = FALSE

C10_Witness ==
  /\ sc_pc = "done" /\ sc_verdict = FALSE
  /\ sc_command = <<<<"f","f","m","p","e","g">>, <<"-","v","f">>, <<"a",";","b">>, <<"a",";","b">>>>

\* the arguments that belong to no filter-flag/value pair, in their order
NonExemptArgs(command) ==
  LET keep == {j \in 1..Len(command) : ~InFilterPair(command, j)}
      Nth(k) == CHOOSE j \in keep : Cardinality({m \in keep : m < j}) = k - 1
  IN [k \in 1..Cardinality(keep) |-> command[Nth(k)]]

\* the non-exempt arguments joined by single spaces
JoinedText(command) == Join(<<" ">>, NonExemptArgs(command))

\* the word w, in any letter case, begins at position p of s and no word
\* character stands before it
WordStartsAt(s, p, w) ==
  /\ p = 1 \/ ~IsWordChar(s[p - 1])
  /\ p + Len(w) - 1 <= Len(s)
  /\ LowerStr(SubSeq(s, p, p + Len(w) - 1)) = w

\* no word character stands after position q of s
WordEndsAt(s, q) == q = Len(s) \/ ~IsWordChar(s[q + 1])

\* the positions reached from behind position q over at least `least`
\* whitespace characters and nothing else
AfterGap(s, q, least) ==
  {r \in (q + 1 + least)..(Len(s) + 1) : \A m \in (q + 1)..(r - 1) : s[m] \in SpaceChars}

\* s holds one of the destructive or privileged command forms
HasCommandForm(s) ==
  \E p \in 1..Len(s) :
    \/ \E w \in {<<"r","m">>, <<"d","e","l">>} :
         WordStartsAt(s, p, w) /\ AfterGap(s, p + Len(w) - 1, 1) # {}
    \/ /\ WordStartsAt(s, p, <<"f","o","r","m","a","t">>)
       /\ \E r \in AfterGap(s, p + 5, 1) :
            r + 1 <= Len(s) /\ Lower(s[r]) \in Range(LowerLetters) /\ s[r + 1] = ":"
    \/ \E w \in {<<"s","u","d","o">>, <<"c","h","m","o","d">>, <<"c","h","o","w","n">>, <<"m","k","f","s">>} :
         WordStartsAt(s, p, w) /\ WordEndsAt(s, p + Len(w) - 1)
    \/ /\ WordStartsAt(s, p, <<"d","d">>)
       /\ \E r \in AfterGap(s, p + 1, 1) :
            r + 2 <= Len(s) /\ LowerStr(SubSeq(s, r, r + 2)) = <<"i","f","=">>
    \/ \E w \in {<<"s","y","s","t","e","m">>, <<"e","x","e","c">>, <<"e","v","a","l">>} :
         /\ WordStartsAt(s, p, w)
         /\ \E r \in AfterGap(s, p + Len(w) - 1, 0) : r <= Len(s) /\ s[r] = "("

\* C11: is_command_secure returns false whenever the non-exempt arguments,
\* joined by spaces, hold in any letter case and starting at a word boundary
\* one of: rm or del followed by whitespace, format followed by whitespace, a
\* drive letter and a colon, the whole word sudo, chmod, chown or mkfs, dd
\* followed by whitespace and if=, or system, exec or eval followed by "(".
C11_RejectsCommandForms ==
  (sc_pc = "done" /\ HasCommandForm(JoinedText(sc_command))) => sc_verdict = FALSE

C11_Witness ==
  /\ sc_pc = "done" /\ sc_verdict = FALSE
  /\ sc_command = <<<<"f","f","m","p","e","g">>, <<"-","i">>, <<"t","e","s","t",".","m","p","4">>, <<"S","u","D","o">>, <<"r","m">>>>
  /\ HasCommandForm(JoinedText(sc_command))

\* s holds shell syntax: & | or a backquote, $( or ${, or > followed, after
\* optional whitespace, by / or \
HasShellSyntax(s) ==
  \E p \in 1..Len(s) :
    \/ s[p] \in {"&", "|", Backquote}
    \/ s[p] = "$" /\ p < Len(s) /\ s[p + 1] \in {"(", "{"}
    \/ s[p] = ">" /\ \E r \in AfterGap(s, p, 0) : r <= Len(s) /\ s[r] \in {"/", "\\"}

\* the three conditions of acceptance
Acceptable(command) ==
  /\ command # <<>>
  /\ HasSuffix(command[1], <<"f","f","m","p","e","g">>) \/ HasSuffix(command[1], <<"f","f","p","r","o","b","e">>)
  /\ ~HasCommandForm(JoinedText(command))
  /\ ~HasShellSyntax(JoinedText(command))
  /\ \A j \in 1..Len(command) : InFilterPair(command, j) \/ ";" \notin Range(command[j])

\* C12: is_command_secure returns true for exactly the lists whose first token
\* ends with ffmpeg or ffprobe, whose non-exempt arguments joined by spaces
\* match no dangerous pattern and hold no semicolon; it accepts the baseline
\* command, the ordinary commands of the tests and the ffprobe duration query.
C12_AcceptsExactlyTheClean ==
  sc_pc = "done" =>
    /\ sc_verdict = Acceptable(sc_command)
    /\ sc_command \in SafeCases \cup {ProbeDurationQuery} => sc_verdict = TRUE

C12_Witness ==
  /\ sc_pc = "done" /\ sc_verdict = TRUE
  /\ sc_command = <<<<"f","f","m","p","e","g">>, <<"-","i">>, <<"i","n","p","u","t",".","m","p","4">>, <<"-","c",":","v">>, <<"l","i","b","x","2","6","4">>, <<"o","u","t","p","u","t",".","m","p","4">>>>

\* C13: is_command_secure accepts [ffmpeg, -i, name, out.mp4] for each of the
\* filenames arm.mp4, storm.mp4, formatting.mp4, reformat.mp4, delete.mp4,
\* model.mp4, exec_summary.mp4 and systemd.mp4, in which a dangerous token occurs
\* only embedded in a longer name.
C13_EmbeddedTokensAccepted ==
  (sc_pc = "done" /\ sc_command \in WordBoundaryCases) => sc_verdict = TRUE

C13_Witness ==
  /\ sc_pc = "done" /\ sc_verdict = TRUE
  /\ sc_command = <<<<"f","f","m","p","e","g">>, <<"-","i">>, <<"f","o","r","m","a","t","t","i","n","g",".","m","p","4">>, <<"o","u","t",".","m","p","4">>>>

\* position j holds the value of a filter-flag/value pair
IsFilterValue(command, j) == FlagRunBefore(command, j) % 2 = 1

\* C14 as stated: the verdict of is_command_secure is the same whatever is put
\* in the place of an argument that immediately follows a filter flag.
C14_AsStated ==
  sc_pc = "done" =>
    \A j \in 2..Len(sc_command) : \A v \in FilterValues :
      sc_command[j - 1] \in FILTER_FLAGS
        => IsCommandSecure([sc_command EXCEPT ![j] = v]) = sc_verdict

\* C14: the verdict of is_command_secure is the same whatever is put in the
\* place of the value of a filter-flag/value pair, pairs being formed left to
\* right, so no separator in such a value causes rejection; a semicolon in an
\* argument outside the pairs does.
C14_FilterValuesExempt ==
  sc_pc = "done" =>
    /\ \A j \in 2..Len(sc_command) : \A v \in FilterValues :
         IsFilterValue(sc_command, j)
           => IsCommandSecure([sc_command EXCEPT ![j] = v]) = sc_verdict
    /\ (\E j \in 1..Len(sc_command) :
          ~InFilterPair(sc_command, j) /\ ";" \in Range(sc_command[j]))
         => sc_verdict = FALSE

C14_Witness ==
  /\ sc_pc = "done" /\ sc_verdict = TRUE
  /\ sc_command = <<<<"f","f","m","p","e","g">>, <<"-","v","f">>, <<"a",";","b">>, <<"a","r","m",".","m","p","4">>>>

\* C15: _validate_command_security raises an ExecError whose message mentions
\* "security validation" for every command is_command_secure rejects and
\* returns without raising for every command it accepts.
C15_RaisesIffRejected ==
  sc_pc = "validated" =>
    IF sc_verdict
    THEN sc_error = NoError
    ELSE /\ sc_error.kind = "security"
         /\ Contains(LowerStr(ErrorText(sc_error)), <<"s","e","c","u","r","i","t","y"," ","v","a","l","i","d","a","t","i","o","n">>)

C15_Witness ==
  /\ sc_pc = "validated" /\ sc_verdict = FALSE /\ sc_error.kind = "security"
  /\ sc_command = <<<<"f","f","m","p","e","g">>, <<"-","i">>, <<"t","e","s","t",".","m","p","4">>, <<";">>, <<"r","m">>, <<"-","r","f">>, <<"/">>>>

\* C16: a command that fails validation as unsafe surfaces as a security
\* violation: when that failure reaches main() the process exits with
\* status 2 and not with status 7.
C16_UnsafeExitsWithSecurityStatus ==
  (sc_pc = "exited" /\ ~sc_verdict) => exit_code = 2

\* C17: the dry check of validate_ffmpeg_command passes the command when the
\* truncated run exits with code 0 or exceeds the validation timeout, and
\* fails it with a non-empty reason taken from the captured diagnostic text
\* when the run exits non-zero.
C17_DryCheckVerdict ==
  (v_pc = "done" /\ v_dry # NoDry) =>
    /\ ((v_dry.kind = "exit" /\ v_dry.rc = 0) \/ v_dry.kind = "timeout")
         => (v_result.ok /\ v_result.msg = <<>>)
    /\ (v_dry.kind = "exit" /\ v_dry.rc # 0)
         => LET lead == <<"F","F","m","p","e","g"," ","v","a","l","i","d","a","t","i","o","n"," ","f","a","i","l","e","d",":"," ">>
                piece == SubSeq(v_result.msg, Len(lead) + 1, Len(v_result.msg))
            IN /\ ~v_result.ok
               /\ v_result.msg # <<>>
               /\ StartsWith(v_result.msg, lead)
               /\ Contains(v_dry.stderr, piece)
               /\ v_dry.stderr # <<>> => piece # <<>>

C17_Witness ==
  /\ v_pc = "done" /\ v_dry = ProcExit(1, StderrBracketed)
  /\ v_result.proc = <<<<"f","f","m","p","e","g">>, <<"-","i">>, <<"a",".","m","p","4">>, <<"-","t">>, <<"0",".","0","0","1">>, <<"o","u","t",".","m","p","4">>>>
  /\ ~v_result.ok /\ v_result.msg = <<"F","F","m","p","e","g"," ","v","a","l","i","d","a","t","i","o","n"," ","f","a","i","l","e","d",":"," ","I","n","v","a","l","i","d"," ","a","r","g","u","m","e","n","t">>

\* number of -i tokens standing directly before position j
InputRunBefore(cmd, j) ==
  Cardinality({m \in 1..(j - 1) : \A q \in m..(j - 1) : cmd[q] = <<"-","i">>})

IsPseudoInput(path) ==
  \/ StartsWith(path, <<"p","i","p","e",":">>) \/ StartsWith(path, <<"h","t","t","p",":","/","/">>)
  \/ StartsWith(path, <<"h","t","t","p","s",":","/","/">>) \/ StartsWith(path, <<"-">>)

\* the arguments of -i options (options taking their argument left to right)
\* that are no pseudo-inputs and do not exist
MissingInputs(cmd, fs) ==
  {cmd[j] : j \in {k \in 2..Len(cmd) : /\ InputRunBefore(cmd, k) % 2 = 1
                                        /\ ~IsPseudoInput(cmd[k])
                                        /\ cmd[k] \notin fs}}

C19_RunOnlyWhenConfirmed ==
  r_pc # "call" =>
    /\ (r_args.commands = <<>> \/ r_args.dry_run \/ ~r_args.confirm)
         => (r_pc = "returned" /\ r_ret.kind = "return" /\ r_ret.code = 0 /\ r_procs = <<>>)
    /\ (r_args.commands # <<>> /\ r_args.dry_run) => r_said = "dry_run"
    /\ (r_pc = "exec" \/ r_procs # <<>>)
         => (r_args.commands # <<>> /\ ~r_args.dry_run /\ r_args.confirm)

C19_Witness ==
  /\ r_pc = "returned" /\ r_args.commands = <<CmdSafe>> /\ r_args.dry_run /\ ~r_args.confirm
  /\ r_said = "dry_run" /\ r_ret.code = 0 /\ r_procs = <<>>

\* the list normalisation and the clean-up of repair_json_for_schema are behind
ListsEstablished == j_pc \in {"infer_inputs", "infer_format", "fix", "done"}
\* an empty or whitespace-only string
IsBlankItem(item) == item.t = "str" /\ \A n \in 1..Len(item.s) : item.s[n] \in SpaceChars

\* C20: whatever the input object (None, missing fields, null arrays, a scalar
\* instead of a list), once repair_json_for_schema has normalised the list
\* fields, inputs, filters and extra_flags are present and list-typed and
\* filters and extra_flags hold no blank or whitespace-only element, at every
\* later step and in the returned object.
C20_ListFieldsStayLists ==
  ListsEstablished =>
    /\ \A field \in {"inputs", "filters", "extra_flags"} : j_repaired[field].t = "list"
    /\ \A field \in {"filters", "extra_flags"} :
         \A n \in 1..Len(j_repaired[field].l) : ~IsBlankItem(j_repaired[field].l[n])

\* returned: inputs was null, filters a list with a blank element, extra_flags
\* a whitespace-only scalar
C20_Witness ==
  /\ j_pc = "done"
  /\ ~j_data.is_none
  /\ j_data.obj["inputs"] = JNull
  /\ j_data.obj["filters"] = JList(<<JStr(<<" ">>), JStr(<<"a">>)>>)
  /\ j_data.obj["extra_flags"] = JStr(<<" ","\t">>)
  /\ j_repaired["filters"] = JList(<<JStr(<<"a">>)>>)
  /\ j_repaired["extra_flags"] = JList(<<>>)
  /\ j_repaired["inputs"].t = "list"

\* C21: in the object repair_json_for_schema returns, action is a string of
\* the closed action enumeration, whatever the input object.
C21_ActionInEnumeration ==
  j_pc = "done" => j_repaired["action"].t = "str" /\ j_repaired["action"].s \in ACTION_NAMES

\* the text from position p on is an inline annotation: " - text", " (text)",
\* " # text", " // text" or " : text"
AnnotationAt(s, p) ==
  LET rest == SubSeq(s, p, Len(s))
  IN \/ StartsWith(rest, <<" ","-"," ">>)
     \/ StartsWith(rest, <<" ","(">>) /\ EndsWith(rest, <<")">>)
     \/ StartsWith(rest, <<" ","#"," ">>)
     \/ StartsWith(rest, <<" ","/","/"," ">>)
     \/ StartsWith(rest, <<" ",":"," ">>)
HasTrailingAnnotation(s) == \E p \in 2..Len(s) : AnnotationAt(s, p)
Unannotated(value) == value.t = "str" => ~HasTrailingAnnotation(value.s)

\* the path-like fields other than inputs carry no inline annotation
ScalarPathsStripped == \A field \in PATH_FIELDS : Unannotated(j_repaired[field])
\* no entry of inputs carries an inline annotation
InputEntriesStripped ==
  \A n \in 1..Len(j_repaired["inputs"].l) : Unannotated(j_repaired["inputs"].l[n])

\* C22: in the object repair_json_for_schema returns, output, subtitle_path,
\* overlay_path and every entry of inputs are free of a trailing inline
\* annotation, whether inputs arrived as a list or as a bare string.
C22_AnnotationsStripped ==
  j_pc = "done" => ScalarPathsStripped /\ InputEntriesStripped

\* three backquotes start at position n of s
IsFence(s, n) == n + 2 <= Len(s) /\ \A k \in n..(n + 2) : s[k] = Backquote
\* the fenced blocks of s whose opening fence carries the tag: <<p, q>> with
\* the opener at p and a fence at q behind it
BlocksOf(s, tag) ==
  {pq \in (1..Len(s)) \X (1..Len(s)) :
     /\ IsFence(s, pq[1])
     /\ pq[2] >= pq[1] + 3 + Len(tag)
     /\ IsFence(s, pq[2])
     /\ LowerStr(SubSeq(s, pq[1] + 3, pq[1] + 2 + Len(tag))) = tag}
\* the first fenced block with the tag: leftmost opener, nearest closing fence
FirstBlock(s, tag) ==
  CHOOSE pq \in BlocksOf(s, tag) :
    \A other \in BlocksOf(s, tag) :
      pq[1] < other[1] \/ (pq[1] = other[1] /\ pq[2] <= other[2])
\* what is between the opener and the closing fence, without surrounding whitespace
BlockContent(s, tag, pq) == Strip(SubSeq(s, pq[1] + 3 + Len(tag), pq[2] - 1))
\* s has a fenced block with the tag whose content starts with {
HasObjectBlock(s, tag) ==
  BlocksOf(s, tag) # {} /\ StartsWith(BlockContent(s, tag, FirstBlock(s, tag)), <<"{">>)
OpenBraces(s) == {n \in 1..Len(s) : s[n] = "{"}
CloseBraces(s) == {n \in 1..Len(s) : s[n] = "}"}
\* from the first { to the last }
BraceSpan(s) ==
  SubSeq(s, CHOOSE a \in OpenBraces(s) : \A b \in OpenBraces(s) : a <= b,
            CHOOSE a \in CloseBraces(s) : \A b \in CloseBraces(s) : a >= b)
HasBraceSpan(s) == \E a \in OpenBraces(s) : \E b \in CloseBraces(s) : a < b
BareObject(s) == StartsWith(s, <<"{">>) /\ EndsWith(s, <<"}">>)

\* C23 as stated: on text that is not already a bare object the result is the
\* content of a fenced code block when there is one, otherwise the substring
\* from the first { to the last }, otherwise the raw text unchanged.
C23_AsStated ==
  (x_pc = "done" /\ x_text # <<>> /\ ~BareObject(Strip(x_text))) =>
    IF BlocksOf(x_text, <<>>) # {}
    THEN \E tag \in {<<>>, <<"j","s","o","n">>} : \E pq \in BlocksOf(x_text, tag) :
           x_result = BlockContent(x_text, tag, pq)
    ELSE IF HasBraceSpan(x_text) THEN x_result = BraceSpan(x_text)
    ELSE x_result = x_text

\* C23: an empty text is returned as is and a text that, stripped of
\* surrounding whitespace, starts with { and ends with } is returned stripped;
\* otherwise the stripped text is searched in fixed order: the content of the
\* first json-tagged fenced block when it starts with {, else the content of
\* the first fenced block when it starts with {, else the substring from the
\* first { to the last } when a } follows the first {, else the stripped text.
C23_SearchOrder ==
  x_pc = "done" =>
    LET t == Strip(x_text)
    IN x_result =
         IF x_text = <<>> THEN x_text
         ELSE IF BareObject(t) THEN t
         ELSE IF HasObjectBlock(t, <<"j","s","o","n">>) THEN BlockContent(t, <<"j","s","o","n">>, FirstBlock(t, <<"j","s","o","n">>))
         ELSE IF HasObjectBlock(t, <<>>) THEN BlockContent(t, <<>>, FirstBlock(t, <<>>))
         ELSE IF HasBraceSpan(t) THEN BraceSpan(t)
         ELSE t

\* a fenced block whose content does not start with {: the braces decide
C23_Witness ==
  /\ x_pc = "done"
  /\ x_text = FENCE \o <<"j","s","\n","{","x","}","\n">> \o FENCE \o <<" ","t","h","e","n"," ","}">>
  /\ x_result = <<"{","x","}","\n">> \o FENCE \o <<" ","t","h","e","n"," ","}">>

\* every item of a list value is a string
AllStrings(value) == \A n \in 1..Len(value.l) : value.l[n].t = "str"
\* the required fields of the intent are there with their types: action a name
\* of the enumeration, inputs, filters and extra_flags sequences of strings
SchemaComplete(obj) ==
  /\ obj["action"].t = "str" /\ obj["action"].s \in ACTION_NAMES
  /\ \A field \in LIST_FIELDS : obj[field].t = "list" /\ AllStrings(obj[field])

\* C24: for malformed data (None, missing fields, null or wrongly typed
\* fields, non-string entries in inputs) repair_json_for_schema returns a
\* schema-complete object.
C24_ReturnsSchemaComplete == j_pc = "done" => SchemaComplete(j_repaired)

\* the exit status of each named kind
KIND_STATUS ==
  [kind \in ERROR_KINDS \cup {"KeyboardInterrupt"} |->
     CASE kind = "SecurityError" -> 2
       [] kind = "ValidationError" -> 3
       [] kind = "ConfigError" -> 4
       [] kind = "TranslationError" -> 5
       [] kind = "ConstructionError" -> 6
       [] kind = "ExecError" -> 7
       [] kind = "KeyboardInterrupt" -> 130]

\* C29: main() exits with the status of the kind of the error that left the
\* application: SecurityError 2, ValidationError 3, ConfigError 4,
\* TranslationError 5, ConstructionError 6, ExecError 7, user interrupt 130,
\* any other error 1 (0 without an error); the named kinds have distinct codes.
C29_ExitCodePerKind ==
  /\ sc_pc = "exited" =>
       exit_code = IF main_exc = "none" THEN 0
                   ELSE IF main_exc \in DOMAIN KIND_STATUS THEN KIND_STATUS[main_exc]
                   ELSE 1
  /\ \A a, b \in DOMAIN KIND_STATUS : a # b => KIND_STATUS[a] # KIND_STATUS[b]

\* a construction error left the application and the process exited with 6
C29_Witness == sc_pc = "exited" /\ main_exc = "ConstructionError" /\ exit_code = 6

\* the class of the exception execute_with_retry ended with ("none": it returned)
RaisedClass == IF result.kind = "raise" THEN ClassOf(result.error) ELSE "none"

\* C26: when the LLM backend fails during Regenerate, execute_with_retry ends
\* by raising ConfigError to its caller.
C26_BackendFailureSurfacesAsConfigError ==
  (Ended /\ regen_exc = "ConfigError") => RaisedClass = "ConfigError"

\* the request is empty or holds whitespace only
RequestIsBlank(request) ==
  request.repeat = 0 \/ \A n \in 1..Len(request.chars) : request.chars[n] \in SpaceChars
\* the request is longer than 10,000 characters
RequestTooLong(request) == Len(request.chars) * request.repeat > 10000

\* C25: for an empty, whitespace-only or longer-than-10,000-character request
\* generate_plan and generate_commands do nothing but raise ValidationError:
\* the workspace is not scanned, the LLM client is neither created nor called,
\* and nothing is tried again.
C25_InvalidRequestRaisesFirst ==
  (a_pc # "idle" /\ (RequestIsBlank(a_request) \/ RequestTooLong(a_request))) =>
    /\ a_pc \in {"call", "raised"}
    /\ a_pc = "raised" => a_exc = "ValidationError"
    /\ a_scans = 0 /\ a_inits = 0 /\ a_parses = 0

\* generate_commands with 10,001 characters, nothing cached: raised at once
C25_Witness ==
  /\ a_pc = "raised"
  /\ a_method = "generate_commands"
  /\ a_request = [chars |-> <<"x">>, repeat |-> 10001]
  /\ ~a_workspace /\ ~a_llm
  /\ a_exc = "ValidationError"
  /\ a_scans = 0 /\ a_inits = 0 /\ a_parses = 0

\* C27: when dispatch_task cannot compile the intent and raises
\* ConstructionError, generate_plan raises ConstructionError to its caller,
\* which the CLI turns into exit status 6.
C27_CompileFailureSurfacesAsConstructionError ==
  (a_pc = "raised" /\ a_cause = [at |-> "dispatch", class |-> "ConstructionError"]) =>
    a_exc = "ConstructionError" /\ ExitCode(a_exc) = 6

\* the full command was run and did not succeed, and _execute_single_command
\* is over
FullCommandFailed == s_pc = "raised" /\ s_proc # NoRun

\* the characters an ExecError message has beyond its fixed text and the
\* command: no more than the label and the excerpt
WithinExcerpt(msg, cmd, rc) ==
  Len(msg) <= Len(MsgExecutionFailed(cmd, rc, <<>>)) + Len(<<"D","e","t","a","i","l","s",":"," ">>) + 500

\* C28: every failure of the full command leaves _execute_single_command as an
\* ExecError: after a non-zero exit its message holds no more than the first
\* 500 characters of the captured stderr, after a timeout (300 s when none was
\* given) it is the timeout message, and a stream longer than the excerpt is
\* never in the message whole.
C28_FullCommandFailureIsExecError ==
  FullCommandFailed =>
    /\ s_exc.class = "ExecError"
    /\ s_proc.kind = "timeout" =>
         s_exc.msg = MsgTimeout(IF s_timeout = 0 THEN 300 ELSE s_timeout)
    /\ s_proc.kind = "exit" =>
         /\ WithinExcerpt(s_exc.msg, s_cmd, s_proc.rc)
         /\ Len(s_proc.stderr) > 500 => ~Contains(s_exc.msg, s_proc.stderr)

\* the cases of C30, read off the call and what ffprobe printed
ProbeOver == p_pc \in {"returned", "raised"}
FfprobeMissing == ~p_found
FfprobeTimedOut == p_proc.kind = "timeout"
FfprobeExitedNonZero == p_proc.kind = "exit" /\ p_proc.rc # 0
FfprobePrinted(texts) ==
  p_proc.kind = "exit" /\ p_proc.rc = 0 /\ p_proc.stderr = <<>> /\ p_proc.text \in texts
UnparsableOutputs == {OutCut, OutNothing}
DurationAbsentOutputs == {OutNoDuration, OutEmptyObject, OutNullDuration}
DurationNotNumericOutputs == {OutNotAvailable, OutTwoDots, OutEmptyString, OutListDuration}

\* C30: _ffprobe_duration returns None, and raises nothing, whenever ffprobe is
\* missing, times out, exits non-zero, prints output that is not JSON, or
\* prints JSON in which format.duration is absent or is not numeric.
C30_ReturnsNoneInsteadOfRaising ==
  (/\ ProbeOver
   /\ \/ FfprobeMissing
      \/ FfprobeTimedOut
      \/ FfprobeExitedNonZero
      \/ FfprobePrinted(UnparsableOutputs \cup DurationAbsentOutputs
                          \cup DurationNotNumericOutputs))
    => p_pc = "returned" /\ p_ret = ReturnsNone

\* the accessors that scan lazily
LAZY_METHODS == {"workspace", "available_files", "generate_plan"}

\* no workspace was passed to the constructor and no scan has happened
NeverScanned == ~w_given /\ w_lazy = 0 /\ w_explicit = 0

CacheStateOk ==
  /\ (NeverScanned /\ w_ret.method = "get_workspace") =>
        w_ret.kind = "raise" /\ w_ret.exc = "RuntimeError"
  /\ w_lazy <= 1
  /\ (w_ret.method \in LAZY_METHODS /\ ~w_ret.ws.none) =>
        /\ w_ret.ws = w_workspace
        /\ w_ret.method = "available_files" => w_ret.files = AvailableFilesOf(w_workspace)

CacheStepOk ==
  /\ (~w_workspace.none /\ w_workspace' # w_workspace) => w_ret'.method = "scan_workspace"
  /\ (~w_workspace.none /\ w_ret'.method \in LAZY_METHODS) =>
        /\ w_workspace' = w_workspace
        /\ w_lazy' = w_lazy
        /\ ~w_ret'.ws.none => w_ret'.ws = w_workspace

\* C31: get_workspace raises RuntimeError as long as no workspace was passed to
\* the constructor and nothing was scanned; the property workspace,
\* available_files and generate_plan scan at most once in the life of the
\* object and, once a snapshot is cached, hand out that snapshot and leave it
\* in place; a cached snapshot is replaced by scan_workspace only.
C31_WorkspaceCache == [](CacheStateOk) /\ [][CacheStepOk]_vars

\* a lazy scan, a later scan_workspace, and then available_files answering
\* from the snapshot scan_workspace left
C31_Witness ==
  /\ w_lazy = 1 /\ w_explicit = 1 /\ w_calls = 3 /\ ~w_given
  /\ w_ret.method = "available_files" /\ w_ret.kind = "return"
  /\ w_ret.files.videos = <<<<"/","w","/","i","n",".","m","p","4">>, <<"/","w","/","n","e","w",".","m","p","4">>>>

\* C32: every call of execute_with_retry ends, by returning or by raising, when
\* the calls it makes end; the attempt number never goes down, and nothing is
\* done any more once the call has ended, so no attempt follows an execution
\* that returned.
C32_Terminates == <>Ended /\ [][attempt' >= attempt /\ ~Ended]_vars

\* the call went through three attempts and returned after its last execution
C32_Witness == pc = "returned" /\ attempt = 3 /\ executor_calls = 3 /\ result.code = 0

\* C33: when regeneration fails, execute_with_retry is over: after a failed
\* validation it has returned status 1 with the command list of its caller,
\* after a failed execution it has raised the ExecError of that attempt, and
\* no step follows, so neither the executor nor the LLM client is called again.
C33_FailedRegenerationEnds ==
  /\ [](regen_exc # "none" =>
          \/ pc = "returned" /\ result = [kind |-> "return", code |-> 1, gen |-> 0,
                                          error |-> NoError]
          \/ /\ pc = "raised" /\ result.kind = "raise"
             /\ result.error = last_error /\ result.error.attempt = attempt)
  /\ [][regen_exc = "none"]_vars

\* the second attempt's execution failed and its regeneration failed
C33_Witness ==
  /\ regen_exc # "none" /\ pc = "raised" /\ attempt = 2 /\ llm_calls = 2
  /\ executor_calls = 2 /\ result.error.kind = "called"

\* positions of the -i flags of cmd that are followed by a path, a token that
\* is not -i itself
InputFlagsWithPath(cmd) ==
  {n \in 1..(Len(cmd) - 1) : cmd[n] = <<"-","i">> /\ cmd[n + 1] # <<"-","i">>}

\* cmd with -t 0.001 put in directly after the path of its last -i
TruncatedAfterLastInput(cmd) ==
  LET flags == InputFlagsWithPath(cmd)
      path == 1 + CHOOSE n \in flags : \A m \in flags : m <= n
  IN SubSeq(cmd, 1, path) \o <<<<"-","t">>, <<"0",".","0","0","1">>>> \o SubSeq(cmd, path + 1, Len(cmd))

\* C34: for an ffmpeg command with at least one -i followed by a path, the
\* command of the dry check is the command with -t 0.001 put in directly after
\* the path of the last -i and is otherwise the same, the command validated is
\* left as it was, and for an ffprobe command no dry check is built.
C34_QuickCommandTruncatesAfterLastInput ==
  (v_pc = "done" /\ v_cmd # <<>>) =>
    /\ (/\ v_cmd[1] = <<"f","f","m","p","e","g">>
        /\ InputFlagsWithPath(v_cmd) # {}
        /\ v_result.proc # NoCommand) => v_result.proc = TruncatedAfterLastInput(v_cmd)
    /\ v_cmd[1] = <<"f","f","p","r","o","b","e">> => v_result.proc = NoCommand

\* the token pair -t 0.001 somewhere in argv
HasDurationLimit(argv) ==
  \E n \in 1..(Len(argv) - 1) : argv[n] = <<"-","t">> /\ argv[n + 1] = <<"0",".","0","0","1">>

\* C35: every subprocess validate_ffmpeg_command starts has the duration limit
\* -t 0.001 in its argument list and is not the command itself, whatever the
\* ffmpeg command: without -i, or with -i as its last token.
C35_ValidateRunsTruncatedOnly ==
  (v_pc = "done" /\ v_result.proc # NoCommand) =>
    HasDurationLimit(v_result.proc) /\ v_result.proc # v_cmd

\* the call of validate_ffmpeg_command got past its test of cmd[0]
PassedExecutableCheck == v_result.msg # <<"C","o","m","m","a","n","d"," ","m","u","s","t"," ","s","t","a","r","t"," ","w","i","t","h"," ","f","f","m","p","e","g"," ","o","r"," ","f","f","p","r","o","b","e">>

\* C36: validate_ffmpeg_command and _is_command_secure agree on the executable:
\* a first token that _is_command_secure takes for ffmpeg or ffprobe passes the
\* executable check of validate_ffmpeg_command, and a first token that passes
\* that check is one _is_command_secure takes.
C36_ValidatorsAgreeOnExecutable ==
  (v_pc = "done" /\ v_cmd # <<>>) =>
    (NamesValidExecutable(v_cmd[1]) <=> PassedExecutableCheck)


\* C37: every plan regenerated in a session is compiled with the allowed
\* directories and the output directory the plan it replaces was compiled
\* with: the arguments given to dispatch_task do not change
C37_SameCompileArguments ==
  \A n \in DOMAIN g_compiles :
    /\ g_compiles[n].allowed_dirs = g_original.allowed_dirs
    /\ g_compiles[n].output_dir = g_original.output_dir


\* the cleaned value of a path string, as _clean_path_string returns it when
\* no workspace file matches
CleanedValue(path_str) == IF path_str = <<>> THEN <<>> ELSE Strip(CleanedPath(path_str))
\* the workspace files whose filename is the value, case-insensitively
NamedFiles(value, workspace) ==
  {file \in Range(WorkspaceFiles(workspace)) : LowerStr(PathName(file)) = LowerStr(value)}
\* the workspace files the value matches, by filename or as a part of the path
MatchedFiles(value, workspace) ==
  {file \in Range(WorkspaceFiles(workspace)) :
     \/ LowerStr(PathName(file)) = LowerStr(value)
     \/ Contains(LowerStr(file), LowerStr(value))}

\* C38: a cleaned value that is the filename of a workspace file, in any
\* case, gives that file's recorded path, whatever other files are listed
\* before it; a non-empty cleaned value that matches no workspace file is
\* returned as cleaned; an empty cleaned value never gives a workspace path
C38_CleanPathMatchesWorkspace ==
  k_pc = "done" =>
    LET cleaned == CleanedValue(k_path_str)
    IN /\ (cleaned # <<>> /\ NamedFiles(cleaned, k_workspace) # {})
            => k_ret \in NamedFiles(cleaned, k_workspace)
       /\ (cleaned # <<>> /\ MatchedFiles(cleaned, k_workspace) = {}) => k_ret = cleaned
       /\ cleaned = <<>> => k_ret \notin Range(WorkspaceFiles(k_workspace))


\* the text holds a "{" with a "}" somewhere after it
HasBracePair(text) ==
  \E a \in 1..Len(text), b \in 1..Len(text) : a < b /\ text[a] = "{" /\ text[b] = "}"

\* C39: from a text that holds a "{" followed later by a "}",
\* extract_json_from_text returns a string that starts with "{" and ends
\* with "}", and which it returns unchanged when applied to it again
C39_ExtractGivesBracedFixpoint ==
  (x_pc = "done" /\ HasBracePair(x_text)) =>
    /\ StartsWith(x_result, <<"{">>)
    /\ EndsWith(x_result, <<"}">>)
    /\ ExtractJsonFromText(x_result) = x_result

====
